---- MODULE Spec2Model ----
(***************************************************************************)
(* Model of the compile-time core of rune: the caching, cycle-detecting    *)
(* constant evaluator (crates/rune/src/ir/ir_interpreter.rs) and the meta  *)
(* lookup of the assembler (crates/rune/src/compile/v1.rs).                *)
(***************************************************************************)
EXTENDS Integers, Sequences, FiniteSets, TLC

(***************************************************************************)
(* Bounds of the model.                                                    *)
(***************************************************************************)
\* largest starting budget of an interpreter built by an action
MaxBudget == 3
\* budget of the interpreter the query engine builds to elaborate a constant
ElabBudget == 3
\* largest budget IrBudget::new is given when the budget is exercised alone
MaxStart == 6
\* calls of take made past the exhaustion of a budget
ExtraTakes == 2
\* width of the model's usize
UsizeBits == 4
\* most metas the host registers for one item
MaxMetas == 3
\* most lookups made on one assembler
MaxLookups == 2
\* most local variables an emitting operation is given or a scope declares
MaxLocals == 3
\* most operations made on the assembly and the scopes of one assembler
MaxOps == 4
\* most arguments of a call of a const fn, and most parameters of one
MaxArgs == 2
\* budget of the interpreter call_const_fn builds: 1,000,000 scaled down to
\* the model's usize
ConstFnBudget == 6
\* deepest nesting of Field and Index in an IrTarget
MaxDepth == 2
\* most tokens ahead of the parser
MaxTokens == 2

(***************************************************************************)
(* Items (paths), identifiers and the user source.                         *)
(***************************************************************************)
Idents == {"A", "B", "C"}

\* constants declared in the user source: A and B at the root, C in module m
ConstItems == {<<"A">>, <<"B">>, <<"m", "C">>}
\* functions declared in the user source: m::B, and A in the module n
FnItems == {<<"m", "B">>, <<"n", "A">>}

\* Item::pop: drop the last component
ItemPop(item) == SubSeq(item, 1, Len(item) - 1)
\* Item::extended: append one component
ItemExtended(item, ident) == Append(item, ident)

(***************************************************************************)
(* IR trees. Every node carries the span it was lowered from.              *)
(***************************************************************************)
Lit(s, n) == [k |-> "lit", span |-> s, n |-> n]
Var(s, id) == [k |-> "var", span |-> s, id |-> id]
Brk(s) == [k |-> "break", span |-> s]
NotC(s) == [k |-> "notconst", span |-> s]
Held(s) == [k |-> "held", span |-> s]
Bin(s, l, r) == [k |-> "bin", span |-> s, l |-> l, r |-> r]

RECURSIVE IrNodes(_)
\* number of nodes of an IR tree
IrNodes(ir) == IF ir.k = "bin" THEN 1 + IrNodes(ir.l) + IrNodes(ir.r) ELSE 1

(***************************************************************************)
(* Values, results and errors.                                             *)
(***************************************************************************)
IrInteger(n) == [t |-> "Integer", n |-> n, held |-> FALSE]
IrVec(held) == [t |-> "Vec", n |-> 0, held |-> held]
ConstInteger(n) == [c |-> "Integer", n |-> n]
ConstVec == [c |-> "Vec", n |-> 0]

Ok(v) == [k |-> "ok", v |-> v]
Err(kind, span) == [k |-> "err", e |-> [kind |-> kind, span |-> span]]

\* IrValue::from_const: lift a ground value, nothing borrows the copy
from_const(cv) ==
    IF cv.c = "Integer" THEN IrInteger(cv.n) ELSE IrVec(FALSE)

\* IrValue::into_const: deep snapshot, fails while a borrow holds the value
into_const(v, span) ==
    IF v.held THEN Err("Access", span)
    ELSE IF v.t = "Integer" THEN Ok(ConstInteger(v.n))
    ELSE Ok(ConstVec)

(***************************************************************************)
(* IrBudget.                                                               *)
(***************************************************************************)
\* usize arithmetic, the word scaled down to UsizeBits bits
UsizeModulus == 2 ^ UsizeBits
UsizeDec(n) == (n + UsizeModulus - 1) % UsizeModulus

\* IrBudget::new
IrBudgetNew(b) == b

\* mutant of IrBudgetTake: the exhausted budget is not checked
IrBudgetTake_unchecked(budget) ==
    [ok |-> TRUE, budget |-> UsizeDec(budget)]

\* IrBudget::take: [ok, budget']
IrBudgetTake(budget) ==
    IF budget = 0 THEN [ok |-> FALSE, budget |-> budget]
    ELSE [ok |-> TRUE, budget |-> UsizeDec(budget)]

(***************************************************************************)
(* State.                                                                  *)
(***************************************************************************)
VARIABLES
    defs,      \* the user source: the IR of every declared constant
    consts,    \* Query::consts, resolved part: item -> ConstValue
    marked,    \* Query::consts, the items marked as being processed
    metas,     \* the meta store: item -> meta
    okv,       \* history: the value of the first successful eval_expr per item
    interp,    \* the IrInterpreter in hand: budget, item, scopes
    log,       \* history: the eval_expr calls made by the last operation
    ret,       \* the result of the last operation
    rcall,     \* history: the last resolve_var call, if it was the last operation
    budget,    \* an IrBudget exercised alone
    start,     \* history: what IrBudget::new was given
    ntake,     \* history: the calls of take made on budget
    nok,       \* history: the calls of take on budget that succeeded
    took,      \* the result of the last take on budget
    evald,     \* the last evaluation of a tree under a fresh budget
    context,   \* Assembler::context: the metas the host registered
    source_id, \* Assembler::source_id
    store,     \* the meta store of Assembler::q: <<item, parameters>> -> meta
    visits,    \* the visit_meta callbacks the visitor of Assembler::q received
    resolved,  \* history: the lookups that returned a meta
    lcall,     \* history: the arguments of the last lookup
    ltrace,    \* history: what the last lookup consulted, in order
    lret,      \* the result of the last lookup
    asm,       \* Assembler::asm: the instructions emitted, each with its span
    scopes,    \* Assembler::scopes: the stack of scopes, innermost last
    nguard,    \* the scope guards handed out so far
    aop,       \* history: the last operation on the assembly and the scopes
    cc,        \* history: the last call of call_const_fn
    tscopes,   \* IrScopes: the stack of scopes targets are resolved in
    heap,      \* the shared objects, vectors and tuples IrValues refer to
    tlast,     \* history: the last operation on a target
    tokens,    \* Parser: the tokens ahead
    plast      \* history: the last operation on the parser

interpVars == <<defs, consts, marked, metas, okv, interp, log, ret, rcall>>
budgetVars == <<budget, start, ntake, nok, took, evald>>
lookupVars == <<context, source_id, store, visits, resolved, lcall, ltrace, lret>>
asmVars == <<asm, scopes, nguard, aop>>
callVars == <<cc>>
targetVars == <<tscopes, heap, tlast>>
parseVars == <<tokens, plast>>
vars == <<interpVars, budgetVars, lookupVars, asmVars, callVars, targetVars,
          parseVars>>

Some(v) == [some |-> TRUE, v |-> v]
NoneV == [some |-> FALSE]

\* the part of the state the query engine owns, threaded through a call
QueryOf == [consts |-> consts, marked |-> marked, metas |-> metas,
            okv |-> okv, log |-> <<>>, depth |-> 0, walk |-> <<>>]

\* history: resolve_var consulted src, the consts cache or the query engine,
\* for an item and found what
Walked(q, src, item, found) ==
    [q EXCEPT !.walk = Append(@, [src |-> src, item |-> item,
                                  depth |-> q.depth, found |-> found])]

(***************************************************************************)
(* Query::consts.                                                          *)
(***************************************************************************)
\* Consts::get
ConstsGet(q, item) ==
    IF item \in DOMAIN q.consts THEN Some(q.consts[item]) ELSE NoneV

\* Consts::mark: false when the item was marked already
ConstsMark(q, item) ==
    [ok |-> item \notin q.marked,
     q |-> [q EXCEPT !.marked = @ \cup {item}]]

\* Consts::insert: stores the value and returns the one it replaced
ConstsInsert(q, item, cv) ==
    [old |-> ConstsGet(q, item),
     q |-> [q EXCEPT !.consts = (item :> cv) @@ @]]

(***************************************************************************)
(* Scopes<IrValue>: a stack of maps, innermost last.                       *)
(***************************************************************************)
RECURSIVE ScopesGet(_, _)
ScopesGet(stack, ident) ==
    IF stack = <<>> THEN NoneV
    ELSE IF ident \in DOMAIN stack[Len(stack)]
         THEN Some(stack[Len(stack)][ident])
         ELSE ScopesGet(SubSeq(stack, 1, Len(stack) - 1), ident)

(***************************************************************************)
(* eval_expr, its pieces.                                                  *)
(***************************************************************************)
\* mutant of CacheRead: the cache is never hit
CacheRead_miss(q, item) == NoneV

\* eval_expr, the cache read: a hit returns the cached value
CacheRead(q, item) == ConstsGet(q, item)

\* mutant of MarkFailure: the wrong error kind
MarkFailure_notconst(span) == Err("NotConst", span)

\* eval_expr, the error of a failed mark
MarkFailure(span) == Err("ConstCycle", span)

\* mutant of TranslateOutcome: a break is reported as NotConst
TranslateOutcome_notconst(out) ==
    CASE out.k = "error" -> [k |-> "err", e |-> out.e]
      [] out.k = "notconst" -> Err("NotConst", out.span)
      [] out.k = "break" -> Err("NotConst", out.span)

\* eval_expr, the translation of a short-circuit outcome into an error
TranslateOutcome(out) ==
    CASE out.k = "error" -> [k |-> "err", e |-> out.e]
      [] out.k = "notconst" -> Err("NotConst", out.span)
      [] out.k = "break" -> Err("BreakOutsideOfLoop", out.span)

\* eval_expr, the insert: a value found in the way is a ConstCycle
InsertConst(q, item, cv, span) ==
    LET ins == ConstsInsert(q, item, cv) IN
    [q |-> ins.q,
     res |-> IF ins.old.some THEN Err("ConstCycle", span) ELSE Ok(cv)]

\* the outcome of an inner evaluation that was not made
NotEvaluated == [k |-> "none"]

\* history: one eval_expr call, appended when it returns; out is the outcome
\* of the inner evaluation
Event(in0, q0, in1, q1, res, out) ==
    [item |-> in0.item, depth |-> q0.depth,
     prior |-> IF in0.item \in DOMAIN q0.okv THEN Some(q0.okv[in0.item]) ELSE NoneV,
     cached |-> ConstsGet(q0, in0.item),
     wasMarked |-> in0.item \in q0.marked,
     isMarked |-> in0.item \in q1.marked,
     now |-> ConstsGet(q1, in0.item),
     same |-> (q0.consts = q1.consts /\ q0.marked = q1.marked),
     b0 |-> in0.budget, b1 |-> in1.budget,
     body |-> out.k # "none", out |-> out, res |-> res]

\* an eval_expr call returns: its event is logged, a first success recorded
Return(in0, q0, in1, q1, res, out) ==
    [in |-> in1,
     res |-> res,
     q |-> [q1 EXCEPT
              !.log = Append(@, Event(in0, q0, in1, q1, res, out)),
              !.okv = IF res.k = "ok" /\ in0.item \notin DOMAIN @
                      THEN (in0.item :> res.v) @@ @ ELSE @]]

RECURSIVE Eval(_, _, _)
RECURSIVE eval_expr(_, _, _)
RECURSIVE resolve_walk(_, _, _, _, _)
RECURSIVE query_meta_with_use(_, _)

\* mutant of Store: the mark of the item is taken back once it is cached
Store_unmark(in, q, ir, ev, cv) ==
    IF cv.k # "ok" THEN Return(in, q, ev.in, ev.q, cv, ev.out)
    ELSE Return(in, q, ev.in,
                [InsertConst(ev.q, in.item, cv.v, ir.span).q
                    EXCEPT !.marked = @ \ {in.item}],
                InsertConst(ev.q, in.item, cv.v, ir.span).res, ev.out)

\* eval_expr, the snapshot and the insert: cv is the snapshot of the value
Store(in, q, ir, ev, cv) ==
    IF cv.k # "ok" THEN Return(in, q, ev.in, ev.q, cv, ev.out)
    ELSE Return(in, q, ev.in,
                InsertConst(ev.q, in.item, cv.v, ir.span).q,
                InsertConst(ev.q, in.item, cv.v, ir.span).res, ev.out)

\* mutant of Finish: a failed evaluation takes its mark back
Finish_unmark(in, q, ir, ev) ==
    IF ev.out.k # "ok"
    THEN Return(in, q, ev.in, [ev.q EXCEPT !.marked = @ \ {in.item}],
                TranslateOutcome(ev.out), ev.out)
    ELSE Store(in, q, ir, ev, into_const(ev.out.v, ir.span))

\* mutant of Finish: the value is stored before it is snapshotted
Finish_early(in, q, ir, ev) ==
    IF ev.out.k # "ok"
    THEN Return(in, q, ev.in, ev.q, TranslateOutcome(ev.out), ev.out)
    ELSE IF into_const(ev.out.v, ir.span).k # "ok"
    THEN Return(in, q, ev.in,
                InsertConst(ev.q, in.item, ConstVec, ir.span).q,
                into_const(ev.out.v, ir.span), ev.out)
    ELSE Store(in, q, ir, ev, into_const(ev.out.v, ir.span))

\* eval_expr, after the inner evaluation ev: a short-circuit outcome is
\* returned as an error, a value is snapshotted and stored
Finish(in, q, ir, ev) ==
    IF ev.out.k # "ok"
    THEN Return(in, q, ev.in, ev.q, TranslateOutcome(ev.out), ev.out)
    ELSE Store(in, q, ir, ev, into_const(ev.out.v, ir.span))

\* IrInterpreter::eval_expr
eval_expr(in, q, ir) ==
    IF CacheRead(q, in.item).some
    THEN Return(in, q, in, q, Ok(CacheRead(q, in.item).v), NotEvaluated)
    ELSE IF ~ConstsMark(q, in.item).ok
    THEN Return(in, q, in, ConstsMark(q, in.item).q, MarkFailure(ir.span),
                NotEvaluated)
    ELSE Finish(in, q, ir, Eval(in, ConstsMark(q, in.item).q, ir))

\* query_meta_with_use, the meta of an elaborated constant is stored
Built(q, item, call) ==
    IF call.res.k # "ok"
    THEN [q |-> [call.q EXCEPT !.depth = q.depth], res |-> call.res]
    ELSE [q |-> [call.q EXCEPT
                   !.depth = q.depth,
                   !.metas = (item :> [kind |-> "Const", const_value |-> call.res.v]) @@ @],
          res |-> Ok(Some([kind |-> "Const", const_value |-> call.res.v]))]

\* Query::query_meta_with_use: the stored meta, else the elaboration of the
\* source item
query_meta_with_use(q, item) ==
    IF item \in DOMAIN q.metas THEN [q |-> q, res |-> Ok(Some(q.metas[item]))]
    ELSE IF item \in ConstItems THEN
        Built(q, item,
              eval_expr([budget |-> IrBudgetNew(ElabBudget),
                         item |-> item, scopes |-> << <<>> >>],
                        [q EXCEPT !.depth = @ + 1], defs[item]))
    ELSE IF item \in FnItems THEN
        [q |-> [q EXCEPT !.metas =
                   (item :> [kind |-> "Fn", const_value |-> ConstInteger(0)]) @@ @],
         res |-> Ok(Some([kind |-> "Fn", const_value |-> ConstInteger(0)]))]
    ELSE [q |-> q, res |-> Ok(NoneV)]

\* mutant of Candidate: a meta of another kind is passed over
Candidate_skip(in, up, ident, span, m) ==
    IF m.res.k # "ok"
    THEN [q |-> Walked(m.q, "meta", ItemExtended(up, ident), "error"),
          res |-> m.res]
    ELSE IF ~m.res.v.some
    THEN resolve_walk(in, Walked(m.q, "meta", ItemExtended(up, ident), "none"),
                      up, ident, span)
    ELSE IF m.res.v.v.kind = "Const"
    THEN [q |-> Walked(m.q, "meta", ItemExtended(up, ident), "Const"),
          res |-> Ok(from_const(m.res.v.v.const_value))]
    ELSE resolve_walk(in, Walked(m.q, "meta", ItemExtended(up, ident), "other"),
                      up, ident, span)

\* resolve_var, one candidate: m is what the query engine answered for it
Candidate(in, up, ident, span, m) ==
    IF m.res.k # "ok"
    THEN [q |-> Walked(m.q, "meta", ItemExtended(up, ident), "error"),
          res |-> m.res]
    ELSE IF ~m.res.v.some
    THEN resolve_walk(in, Walked(m.q, "meta", ItemExtended(up, ident), "none"),
                      up, ident, span)
    ELSE IF m.res.v.v.kind = "Const"
    THEN [q |-> Walked(m.q, "meta", ItemExtended(up, ident), "Const"),
          res |-> Ok(from_const(m.res.v.v.const_value))]
    ELSE [q |-> Walked(m.q, "meta", ItemExtended(up, ident), "other"),
          res |-> Err("UnsupportedMeta", span)]

\* resolve_var, the walk up the item path
resolve_walk(in, q, base, ident, span) ==
    IF base = <<>> THEN [q |-> q, res |-> Err("NotConst", span)]
    ELSE IF ConstsGet(q, ItemExtended(ItemPop(base), ident)).some
    THEN [q |-> Walked(q, "consts", ItemExtended(ItemPop(base), ident), "hit"),
          res |-> Ok(from_const(ConstsGet(q, ItemExtended(ItemPop(base), ident)).v))]
    ELSE Candidate(in, ItemPop(base), ident, span,
                   query_meta_with_use(
                      Walked(q, "consts", ItemExtended(ItemPop(base), ident), "miss"),
                      ItemExtended(ItemPop(base), ident)))

\* mutant of resolve_var: the lexical scopes are not looked at
resolve_var_module(in, q, ident, span) ==
    resolve_walk(in, q, in.item, ident, span)

\* IrInterpreter::resolve_var
resolve_var(in, q, ident, span) ==
    IF ScopesGet(in.scopes, ident).some
    THEN [q |-> q, res |-> Ok(ScopesGet(in.scopes, ident).v)]
    ELSE resolve_walk(in, q, in.item, ident, span)

\* the inner evaluator, a name: an error of resolve_var is an outcome
EvalVar(in, r) ==
    [in |-> in, q |-> r.q,
     out |-> IF r.res.k = "ok" THEN r.res ELSE [k |-> "error", e |-> r.res.e]]

\* the inner evaluator, a binary operation on the values of both sides
EvalBinDone(ir, l, r) ==
    IF r.out.k # "ok" THEN r
    ELSE IF l.out.v.t = "Integer" /\ r.out.v.t = "Integer"
         THEN [in |-> r.in, q |-> r.q,
               out |-> Ok(IrInteger(l.out.v.n + r.out.v.n))]
         ELSE [in |-> r.in, q |-> r.q,
               out |-> [k |-> "notconst", span |-> ir.span]]

\* the inner evaluator, a binary operation: the left side, then the right
EvalBin(ir, l) ==
    IF l.out.k # "ok" THEN l
    ELSE EvalBinDone(ir, l, Eval(l.in, l.q, ir.r))

\* the inner evaluator of a node, its budget taken
EvalNode(in, q, ir) ==
    CASE ir.k = "lit" -> [in |-> in, q |-> q, out |-> Ok(IrInteger(ir.n))]
      [] ir.k = "held" -> [in |-> in, q |-> q, out |-> Ok(IrVec(TRUE))]
      [] ir.k = "break" -> [in |-> in, q |-> q, out |-> [k |-> "break", span |-> ir.span]]
      [] ir.k = "notconst" -> [in |-> in, q |-> q, out |-> [k |-> "notconst", span |-> ir.span]]
      [] ir.k = "var" -> EvalVar(in, resolve_var(in, q, ir.id, ir.span))
      [] ir.k = "bin" -> EvalBin(ir, Eval(in, q, ir.l))

\* the inner evaluator: every node takes from the budget first
Eval(in, q, ir) ==
    IF ~IrBudgetTake(in.budget).ok
    THEN [in |-> in, q |-> q,
          out |-> [k |-> "error", e |-> [kind |-> "BudgetExceeded", span |-> ir.span]]]
    ELSE EvalNode([in EXCEPT !.budget = IrBudgetTake(in.budget).budget], q, ir)

(***************************************************************************)
(* The source programs and interpreters the model ranges over.             *)
(***************************************************************************)
RootSpan == 10

\* the bodies the constant A takes
RootIrs ==
    {Lit(RootSpan, 1), Var(RootSpan, "A"), Var(RootSpan, "B"),
     Var(RootSpan, "C"), Brk(RootSpan), NotC(RootSpan), Held(RootSpan),
     Bin(RootSpan, Lit(11, 1), Lit(12, 2)),
     Bin(RootSpan, Var(11, "B"), Brk(12))}

Prog(a, b, c) == (<<"A">> :> a) @@ (<<"B">> :> b) @@ (<<"m", "C">> :> c)

\* the user sources: A takes every body while B and m::C name A, and
\* A names B while B is a literal
Programs ==
    {Prog(a, Var(RootSpan, "A"), Var(RootSpan, "A")) : a \in RootIrs}
    \cup
    {Prog(a, Lit(RootSpan, 2), c) :
        <<a, c>> \in {Lit(RootSpan, 1), Var(RootSpan, "B"),
                      Bin(RootSpan, Var(11, "B"), Brk(12))}
                     \X {Var(RootSpan, "A"), Var(RootSpan, "B")}}

\* the scope stacks of an interpreter: the default one, and one binding C
ScopeChoices == { << <<>> >>, << ("C" :> IrInteger(7)) >> }

Interpreters ==
    [budget : 0..MaxBudget, item : ConstItems, scopes : ScopeChoices]

EmptyMap == <<>>

NoEval == [nodes |-> 0, b0 |-> 0, b1 |-> 0, out |-> Ok(IrInteger(0))]

\* the budget exercised alone, before anything is done with it
BudgetIdle ==
    /\ budget = IrBudgetNew(0)
    /\ start = 0
    /\ ntake = 0
    /\ nok = 0
    /\ took = "none"
    /\ evald = NoEval

NoCall == [op |-> "none", item |-> "f", generics |-> NoneV, span |-> 0]

\* the assembler before any lookup, nothing registered by the host
LookupIdle ==
    /\ context = <<>>
    /\ source_id = 1
    /\ store = EmptyMap
    /\ visits = <<>>
    /\ resolved = <<>>
    /\ lcall = NoCall
    /\ ltrace = <<>>
    /\ lret = [k |-> "none"]

\* Scopes::new: the root scope alone, which no guard was handed out for
RootScope == [guard |-> 0, local_var_count |-> 0]

NoOp == [op |-> "none", seq |-> 0]

\* the assembly and the scopes before anything is emitted
AsmIdle ==
    /\ asm = <<>>
    /\ scopes = <<RootScope>>
    /\ nguard = 0
    /\ aop = NoOp

NoConstCall == [op |-> "none"]

\* no const fn was called yet
CallIdle == cc = NoConstCall

\* no scopes, no shared values and no operation on a target yet
TargetIdle ==
    /\ tscopes = << <<>> >>
    /\ heap = <<>>
    /\ tlast = [op |-> "none"]

\* no tokens and no operation on the parser yet
ParseIdle ==
    /\ tokens = <<>>
    /\ plast = [op |-> "none"]

NoResolve == [op |-> "none"]

\* the interpreter before anything is evaluated
InterpIdle ==
    /\ defs = Prog(Lit(RootSpan, 1), Lit(RootSpan, 2), Var(RootSpan, "A"))
    /\ consts = EmptyMap
    /\ marked = {}
    /\ metas = EmptyMap
    /\ okv = EmptyMap
    /\ interp = [budget |-> IrBudgetNew(0), item |-> <<"A">>, scopes |-> << <<>> >>]
    /\ log = <<>>
    /\ ret = Ok(ConstInteger(0))
    /\ rcall = NoResolve

Init ==
    /\ defs \in Programs
    /\ consts = EmptyMap
    /\ marked = {}
    /\ metas = EmptyMap
    /\ okv = EmptyMap
    /\ interp = [budget |-> IrBudgetNew(MaxBudget), item |-> <<"A">>,
                 scopes |-> << <<>> >>]
    /\ log = <<>>
    /\ ret = Ok(ConstInteger(0))
    /\ rcall = NoResolve
    /\ BudgetIdle
    /\ LookupIdle
    /\ AsmIdle
    /\ CallIdle
    /\ TargetIdle
    /\ ParseIdle

\* an interpreter is built for an item
NewInterpreter ==
    /\ \E in \in Interpreters : interp' = in
    /\ log' = <<>>
    /\ ret' = Ok(ConstInteger(0))
    /\ rcall' = NoResolve
    /\ UNCHANGED <<defs, consts, marked, metas, okv>>
    /\ UNCHANGED <<budgetVars, lookupVars, asmVars, callVars, targetVars,
                   parseVars>>

\* the query state after a call
Commit(q) ==
    /\ consts' = q.consts
    /\ marked' = q.marked
    /\ metas' = q.metas
    /\ okv' = q.okv
    /\ log' = q.log

\* eval_expr is called on the interpreter, with the IR of its item
EvalExpr ==
    /\ interp.item \in DOMAIN defs
    /\ LET r == eval_expr(interp, QueryOf, defs[interp.item]) IN
       /\ Commit(r.q)
       /\ interp' = r.in
       /\ ret' = r.res
    /\ rcall' = NoResolve
    /\ UNCHANGED defs
    /\ UNCHANGED <<budgetVars, lookupVars, asmVars, callVars, targetVars,
                   parseVars>>

\* history: the resolve_var call r and what it consulted itself, the
\* elaborations of the query engine left out
Resolved(ident, r) ==
    [op |-> "resolve_var", ident |-> ident, res |-> r.res,
     walk |-> SelectSeq(r.q.walk, LAMBDA w : w.depth = 0),
     same |-> (r.q.consts = consts /\ r.q.marked = marked /\ r.q.metas = metas),
     nwalk |-> Len(r.q.walk), nlog |-> Len(r.q.log)]

\* resolve_var is called on the interpreter
ResolveVar ==
    \E ident \in Idents :
        LET r == resolve_var(interp, QueryOf, ident, RootSpan) IN
        /\ Commit(r.q)
        /\ ret' = r.res
        /\ rcall' = Resolved(ident, r)
        /\ UNCHANGED <<defs, interp>>
        /\ UNCHANGED <<budgetVars, lookupVars, asmVars, callVars, targetVars,
                       parseVars>>

Next == NewInterpreter \/ EvalExpr \/ ResolveVar

Spec == Init /\ [][Next]_vars

(***************************************************************************)
(* Properties of eval_expr.                                                *)
(***************************************************************************)
Events == {log[i] : i \in 1..Len(log)}

IsErr(res, kind) == res.k = "err" /\ res.e.kind = kind

\* C1: once eval_expr has succeeded for an item, every later eval_expr call
\* on that item returns the same value from the cache: the body is not
\* evaluated, no budget is taken, the cache and the marked set are unchanged.
C1_CacheSoundness ==
    \A e \in Events :
        e.prior.some =>
            /\ e.res = Ok(e.prior.v)
            /\ ~e.body
            /\ e.b1 = e.b0
            /\ e.same

\* a call on an item that succeeded before, made with an exhausted budget
C1_Witness ==
    \E e \in Events : e.prior.some /\ e.b0 = 0 /\ e.res.k = "ok"

IsCycleProgram ==
    /\ defs[<<"A">>] = Var(RootSpan, "B")
    /\ defs[<<"B">>] = Var(RootSpan, "A")

\* C2: with const A = B; const B = A; every eval_expr call on A or on B made
\* with budget left fails with ConstCycle (a call on an exhausted budget
\* fails with BudgetExceeded), and neither A nor B is ever cached.
C2_CycleDetected ==
    IsCycleProgram =>
        /\ <<"A">> \notin DOMAIN consts
        /\ <<"B">> \notin DOMAIN consts
        /\ \A e \in Events :
              e.item \in {<<"A">>, <<"B">>} =>
                 IF e.b0 > 0 \/ e.wasMarked
                 THEN IsErr(e.res, "ConstCycle")
                 ELSE IsErr(e.res, "BudgetExceeded")

\* the first evaluation of A went through B back into A and failed
C2_Witness ==
    /\ IsCycleProgram
    /\ Len(log) = 3
    /\ log[1].item = <<"A">> /\ log[1].depth = 2
    /\ log[2].item = <<"B">> /\ log[2].body
    /\ log[3].item = <<"A">> /\ log[3].body /\ ~log[3].wasMarked
    /\ IsErr(ret, "ConstCycle")

\* C3: an eval_expr call on an item that is marked and not cached fails with
\* ConstCycle without evaluating the IR, and every failed call leaves its
\* item marked, whatever the error.
C3_MarkedIsCycle ==
    \A e \in Events :
        /\ (e.wasMarked /\ ~e.cached.some) =>
              /\ IsErr(e.res, "ConstCycle")
              /\ ~e.body
              /\ e.b1 = e.b0
        /\ e.res.k = "err" => (e.isMarked /\ ~e.now.some)

\* a call on an item whose earlier evaluation failed with something other
\* than a cycle: its body is a break outside of a loop
C3_Witness ==
    /\ Len(log) = 1
    /\ log[1].wasMarked /\ ~log[1].cached.some
    /\ defs[log[1].item] = Brk(RootSpan)
    /\ IsErr(ret, "ConstCycle")

\* C4: a cache entry is never changed or removed, and a new entry is the
\* value of an eval_expr call on that item that evaluated the IR and
\* snapshotted the result.
C4_WriteOnce ==
    [][/\ \A item \in DOMAIN consts :
             item \in DOMAIN consts' /\ consts'[item] = consts[item]
       /\ \A item \in DOMAIN consts' \ DOMAIN consts :
             \E i \in 1..Len(log') :
                /\ log'[i].item = item
                /\ log'[i].body
                /\ ~log'[i].cached.some
                /\ log'[i].res = Ok(consts'[item])
       /\ \A i \in 1..Len(log') :
             log'[i].cached.some => log'[i].now = log'[i].cached]_vars

\* two entries are cached and a later call was made on one of them
C4_Witness ==
    /\ Cardinality(DOMAIN consts) >= 2
    /\ \E e \in Events : e.cached.some /\ e.now = e.cached

\* the call evaluated the IR to a value, snapshotted it and stored it
Inserted(e) == e.body /\ e.out.k = "ok" /\ e.res.k = "ok"

\* C25: the insert of eval_expr never finds a value cached for its item: no
\* call that evaluated the IR to a value fails with ConstCycle; a call that
\* stores a value found its item neither cached nor marked, the calls on an
\* item that is cached or marked being stopped by the cache read or by the
\* failed mark; every cached item is marked, and is stored by at most one
\* call of an operation.
C25_NoDuplicateInsert ==
    /\ DOMAIN consts \subseteq marked
    /\ \A e \in Events :
          /\ (e.body /\ e.out.k = "ok") => ~IsErr(e.res, "ConstCycle")
          /\ (e.cached.some \/ e.wasMarked) => ~e.body
          /\ Inserted(e) =>
                /\ ~e.cached.some /\ ~e.wasMarked
                /\ e.now = Some(e.res.v)
                /\ e.item \in DOMAIN consts
    /\ \A i, j \in 1..Len(log) :
          (Inserted(log[i]) /\ Inserted(log[j]) /\ log[i].item = log[j].item)
             => i = j

\* with B cached and A marked by a failed evaluation, the elaboration of A
\* asked for from m::C is stopped by the failed mark
C25_Witness ==
    /\ consts # EmptyMap
    /\ \E e \in Events :
          /\ e.depth > 0
          /\ e.wasMarked
          /\ ~e.body
          /\ e.item \notin DOMAIN consts
          /\ IsErr(e.res, "ConstCycle")
    /\ \E e \in Events : e.depth = 0 /\ e.item = <<"m", "C">>

\* the inner evaluation of the call was cut short
ShortCircuit(e) == e.out.k \in {"error", "notconst", "break"}

\* C19: eval_expr turns every short-circuit outcome of the inner evaluation
\* into an error, never a value: a break into BreakOutsideOfLoop at the span of
\* the break, a NotConst into NotConst at its span, an error into itself; and
\* the item is not in the consts cache when the call returns.
C19_Outcomes ==
    \A e \in Events :
        ShortCircuit(e) =>
            /\ e.res.k = "err"
            /\ e.out.k = "break" => e.res = Err("BreakOutsideOfLoop", e.out.span)
            /\ e.out.k = "notconst" => e.res = Err("NotConst", e.out.span)
            /\ e.out.k = "error" => e.res.e = e.out.e
            /\ ~e.now.some

\* a break inside the body of A, after B was elaborated and cached on the way
C19_Witness ==
    \E e \in Events :
        /\ e.item = <<"A">>
        /\ e.out.k = "break"
        /\ e.out.span # RootSpan
        /\ e.res = Err("BreakOutsideOfLoop", e.out.span)
        /\ <<"B">> \in DOMAIN consts
        /\ <<"A">> \notin DOMAIN consts

(***************************************************************************)
(* resolve_var on interpreters at other places of the module tree.         *)
(***************************************************************************)
\* the places an interpreter is at: the constants of the source, the crate
\* root, and an item two modules deep
ResolveItems == ConstItems \cup {<<>>, <<"m", "k", "D">>}

\* the scope stacks: a name bound twice, and a name bound in the outer scope
ResolveScopes ==
    ScopeChoices \cup
    { << ("C" :> IrInteger(7)), ("C" :> IrInteger(8)) @@ ("A" :> IrInteger(9)) >>,
      << ("B" :> IrInteger(9)), EmptyMap >> }

InitResolve ==
    /\ defs \in Programs
    /\ consts = EmptyMap
    /\ marked = {}
    /\ metas = EmptyMap
    /\ okv = EmptyMap
    /\ interp \in [budget : {IrBudgetNew(MaxBudget)}, item : ResolveItems,
                   scopes : ResolveScopes]
    /\ log = <<>>
    /\ ret = Ok(ConstInteger(0))
    /\ rcall = NoResolve
    /\ BudgetIdle
    /\ LookupIdle
    /\ AsmIdle
    /\ CallIdle
    /\ TargetIdle
    /\ ParseIdle

NextResolve == ResolveVar \/ EvalExpr

SpecResolve == InitResolve /\ [][NextResolve]_vars

(***************************************************************************)
(* Properties of resolve_var.                                              *)
(***************************************************************************)
\* the name is bound in some scope of the interpreter
Lexical(ident) ==
    \E i \in 1..Len(interp.scopes) : ident \in DOMAIN interp.scopes[i]

\* C17: resolve_var of a name bound in the lexical scopes answers with the
\* value of its innermost binding, and neither the consts cache nor the query
\* engine is consulted: nothing is walked, evaluated or stored.
C17_LexicalFirst ==
    (rcall.op = "resolve_var" /\ Lexical(rcall.ident)) =>
        /\ \E i \in 1..Len(interp.scopes) :
              /\ rcall.ident \in DOMAIN interp.scopes[i]
              /\ \A j \in (i + 1)..Len(interp.scopes) :
                    rcall.ident \notin DOMAIN interp.scopes[j]
              /\ rcall.res = Ok(interp.scopes[i][rcall.ident])
        /\ rcall.nwalk = 0
        /\ rcall.nlog = 0
        /\ rcall.same

\* a name bound in two scopes is resolved from m::C, whose own cached value the
\* walk would have found
C17_Witness ==
    /\ rcall.op = "resolve_var"
    /\ rcall.ident = "C"
    /\ interp.item = <<"m", "C">>
    /\ Len(interp.scopes) = 2
    /\ "C" \in DOMAIN interp.scopes[1]
    /\ interp.scopes[1]["C"] # interp.scopes[2]["C"]
    /\ <<"m", "C">> \in DOMAIN consts
    /\ from_const(consts[<<"m", "C">>]) # interp.scopes[2]["C"]
    /\ rcall.res = Ok(interp.scopes[2]["C"])

\* the k-th candidate of the walk: the item path less its last k components,
\* extended by the name
WalkCandidate(k) ==
    Append(SubSeq(interp.item, 1, Len(interp.item) - k), rcall.ident)

\* how many candidates the walk has come to with its i-th consultation
WalkCount(i) ==
    Len(SelectSeq(SubSeq(rcall.walk, 1, i), LAMBDA w : w.src = "consts"))

\* the walk ended with the found of its last consultation
WalkEnded(src, found) ==
    /\ rcall.walk # <<>>
    /\ rcall.walk[Len(rcall.walk)].src = src
    /\ rcall.walk[Len(rcall.walk)].found = found

WalkLast == rcall.walk[Len(rcall.walk)].item

\* C18: resolve_var of a name that is not lexically bound walks from the
\* interpreter's item upwards: the k-th candidate is the path less its last k
\* components, extended by the name; for each candidate the consts cache is
\* consulted first and the query engine only on a miss; the first candidate
\* that yields something ends the walk, with the constant's value or with
\* UnsupportedMeta; no other item is consulted; NotConst when the root is
\* passed with nothing found.
C18_ModuleWalk ==
    (rcall.op = "resolve_var" /\ ~Lexical(rcall.ident)) =>
        /\ \A i \in 1..Len(rcall.walk) :
              /\ WalkCount(i) \in 1..Len(interp.item)
              /\ rcall.walk[i].item = WalkCandidate(WalkCount(i))
              /\ rcall.walk[i].src = "consts" =>
                    /\ rcall.walk[i].found \in {"hit", "miss"}
                    /\ i > 1 => /\ rcall.walk[i - 1].src = "meta"
                                /\ rcall.walk[i - 1].found = "none"
              /\ rcall.walk[i].src = "meta" =>
                    /\ i > 1
                    /\ rcall.walk[i - 1].src = "consts"
                    /\ rcall.walk[i - 1].found = "miss"
                    /\ rcall.walk[i - 1].item = rcall.walk[i].item
        /\ ~WalkEnded("consts", "miss")
        /\ rcall.walk = <<>> =>
              /\ interp.item = <<>>
              /\ rcall.res = Err("NotConst", RootSpan)
        /\ WalkEnded("consts", "hit") =>
              /\ WalkLast \in DOMAIN consts
              /\ rcall.res = Ok(from_const(consts[WalkLast]))
        /\ WalkEnded("meta", "Const") =>
              /\ WalkLast \in DOMAIN metas
              /\ metas[WalkLast].kind = "Const"
              /\ rcall.res = Ok(from_const(metas[WalkLast].const_value))
        /\ WalkEnded("meta", "other") =>
              /\ WalkLast \in DOMAIN metas
              /\ metas[WalkLast].kind # "Const"
              /\ rcall.res = Err("UnsupportedMeta", RootSpan)
        /\ WalkEnded("meta", "error") => rcall.res.k = "err"
        /\ WalkEnded("meta", "none") =>
              /\ WalkCount(Len(rcall.walk)) = Len(interp.item)
              /\ rcall.res = Err("NotConst", RootSpan)

\* from m::k::D the name A is found at the root only, after m::k::A and m::A
\* yielded nothing; the function n::A of the sibling module is left alone
C18_Witness ==
    /\ rcall.op = "resolve_var"
    /\ rcall.ident = "A"
    /\ interp.item = <<"m", "k", "D">>
    /\ ~Lexical("A")
    /\ [i \in 1..Len(rcall.walk) |-> rcall.walk[i].item] =
          << <<"m", "k", "A">>, <<"m", "k", "A">>, <<"m", "A">>, <<"m", "A">>,
             <<"A">>, <<"A">> >>
    /\ rcall.res.k = "ok"
    /\ <<"n", "A">> \in FnItems
    /\ <<"n", "A">> \notin DOMAIN metas

(***************************************************************************)
(* The budget alone.                                                       *)
(***************************************************************************)
\* trees of literals: every node of them is visited
LitTrees ==
    {Lit(RootSpan, 1),
     Bin(RootSpan, Lit(11, 1), Lit(12, 2)),
     Bin(RootSpan, Bin(11, Lit(13, 1), Lit(14, 1)), Lit(12, 2)),
     Bin(RootSpan, Lit(11, 1), Bin(12, Lit(13, 1), Lit(14, 1)))}

InitBudget ==
    /\ InterpIdle /\ BudgetIdle /\ LookupIdle /\ AsmIdle /\ CallIdle
    /\ TargetIdle /\ ParseIdle

\* IrBudget::new(b)
BudgetNew ==
    \E b \in 0..MaxStart :
        /\ budget' = IrBudgetNew(b)
        /\ start' = b
        /\ ntake' = 0
        /\ nok' = 0
        /\ took' = "none"
        /\ UNCHANGED <<evald, interpVars, lookupVars, asmVars, callVars,
                       targetVars, parseVars>>

\* budget.take(span)
BudgetTake ==
    /\ ntake < start + ExtraTakes
    /\ budget' = IrBudgetTake(budget).budget
    /\ ntake' = ntake + 1
    /\ nok' = IF IrBudgetTake(budget).ok THEN nok + 1 ELSE nok
    /\ took' = IF IrBudgetTake(budget).ok THEN "Ok" ELSE "BudgetExceeded"
    /\ UNCHANGED <<start, evald, interpVars, lookupVars, asmVars, callVars,
                   targetVars, parseVars>>

\* the record of an evaluation r of ir started with budget b
Evaluated(b, ir, r) ==
    [nodes |-> IrNodes(ir), b0 |-> b, b1 |-> r.in.budget, out |-> r.out]

\* a tree of literals is evaluated by an interpreter with a fresh budget b
EvalTree ==
    \E b \in 0..MaxStart, ir \in LitTrees :
        /\ evald' = Evaluated(b, ir,
                       Eval([budget |-> IrBudgetNew(b), item |-> <<"A">>,
                             scopes |-> << <<>> >>], QueryOf, ir))
        /\ UNCHANGED <<budget, start, ntake, nok, took, interpVars,
                       lookupVars, asmVars, callVars, targetVars, parseVars>>

NextBudget == BudgetNew \/ BudgetTake \/ EvalTree

SpecBudget == InitBudget /\ [][NextBudget]_vars

\* C5: of the calls of take on IrBudget::new(b) exactly the first b succeed,
\* each taking one; the later ones fail with BudgetExceeded and leave the
\* counter at 0. An evaluation that visits N nodes succeeds with a budget of
\* at least N, which it lowers by N, and fails with BudgetExceeded with less,
\* so with N-1.
C5_Budget ==
    /\ nok = (IF ntake <= start THEN ntake ELSE start)
    /\ budget = start - nok
    /\ ntake > 0 => (took = (IF ntake <= start THEN "Ok" ELSE "BudgetExceeded"))
    /\ IF evald.b0 >= evald.nodes
       THEN evald.out.k = "ok" /\ evald.b1 = evald.b0 - evald.nodes
       ELSE /\ evald.out.k = "error"
            /\ evald.out.e.kind = "BudgetExceeded"
            /\ evald.b1 = 0

\* takes were made past the end of a budget of 3, and a tree of 5 nodes was
\* evaluated with a budget of 4
C5_Witness ==
    /\ start = 3 /\ ntake = 5 /\ took = "BudgetExceeded"
    /\ evald.nodes = 5 /\ evald.b0 = 4

(***************************************************************************)
(* Meta lookup of the assembler.                                           *)
(***************************************************************************)
\* Hash::EMPTY, the parameters hash of a non-generic item
HashEmpty == 0
Hashes == {HashEmpty, 1}

\* the items looked up: f is registered by the host, u is declared in the
\* user source and registered by the host as well
LookupItems == {"f", "u"}
HostItems == {"f", "u"}
UserItems == {"u"}

\* what the host registers: a kind and a parameters hash
ContextMetaChoices ==
    {[kind |-> "Function", parameters |-> HashEmpty],
     [kind |-> "Function", parameters |-> 1],
     [kind |-> "Macro", parameters |-> HashEmpty],
     [kind |-> "Module", parameters |-> HashEmpty]}

\* the registrations of one item, each numbered in registration order
Contexts ==
    UNION {{[i \in 1..n |-> [kind |-> c[i].kind, parameters |-> c[i].parameters,
                             id |-> i]] :
               c \in [1..n -> ContextMetaChoices]} : n \in 0..MaxMetas}

\* ContextMeta::info
Info(cm) == [id |-> cm.id, kind |-> cm.kind, parameters |-> cm.parameters]

\* meta::Kind::as_parameters
AsParameters(cm) == cm.parameters

\* Context::lookup_meta: all the metas the host registered for the item
ContextLookupMeta(item) == IF item \in HostItems THEN context ELSE <<>>

\* mutant of IsSelectable: the kind is not looked at
IsSelectable_anykind(cm, parameters) == AsParameters(cm) = parameters

\* select_context_meta, the two filters
IsSelectable(cm, parameters) ==
    /\ cm.kind \notin {"Macro", "Module"}
    /\ AsParameters(cm) = parameters

\* Option::unwrap_or(Hash::EMPTY)
UnwrapOrEmpty(parameters) == IF parameters.some THEN parameters.v ELSE HashEmpty

\* Assembler::select_context_meta
select_context_meta(item, cmetas, parameters) ==
    LET want == UnwrapOrEmpty(parameters)
        Keep(cm) == IsSelectable(cm, want)
        it == SelectSeq(cmetas, Keep)
    IN
    IF it = <<>> THEN [k |-> "none"]
    ELSE IF Tail(it) = <<>> THEN [k |-> "some", meta |-> Head(it)]
    ELSE [k |-> "err",
          e |-> [kind |-> "AmbiguousContextItem", item |-> item,
                 infos |-> [i \in 1..Len(cmetas) |-> Info(cmetas[i])]]]

\* the meta of a source item, and the meta copied from a context meta
SourceMeta(item) ==
    [item |-> item, kind |-> "Function", parameters |-> HashEmpty,
     from |-> "source", id |-> 0]
MetaOfContext(item, cm) ==
    [item |-> item, kind |-> cm.kind, parameters |-> cm.parameters,
     from |-> "context", id |-> cm.id]

Consulted(a, what) == [a EXCEPT !.trace = Append(@, what)]

\* Query::query_meta: the stored meta of the item, else the elaboration of
\* the source item, which fails when qfail
query_meta(a, item, qfail) ==
    IF <<item, HashEmpty>> \in DOMAIN a.store
    THEN [a |-> Consulted(Consulted(a, "query_meta"), "hit"),
          res |-> [k |-> "some", meta |-> a.store[<<item, HashEmpty>>]]]
    ELSE IF item \in UserItems
    THEN IF qfail
         THEN [a |-> Consulted(Consulted(a, "query_meta"), "error"),
               res |-> [k |-> "err", e |-> [kind |-> "QueryError", item |-> item]]]
         ELSE [a |-> [Consulted(Consulted(a, "query_meta"), "hit") EXCEPT
                        !.store = (<<item, HashEmpty>> :> SourceMeta(item)) @@ @],
               res |-> [k |-> "some", meta |-> SourceMeta(item)]]
    ELSE [a |-> Consulted(Consulted(a, "query_meta"), "miss"), res |-> [k |-> "none"]]

\* Query::insert_context_meta: the context meta is copied into the store,
\* which fails when ifail
insert_context_meta(a, item, cm, ifail) ==
    IF ifail
    THEN [a |-> a, res |-> [k |-> "err", e |-> [kind |-> "MetaError", item |-> item]]]
    ELSE [a |-> [a EXCEPT !.store =
                   (<<item, cm.parameters>> :> MetaOfContext(item, cm)) @@ @],
          res |-> [k |-> "some", meta |-> MetaOfContext(item, cm)]]

\* CompileVisitor::visit_meta, as the visitor of the assembler receives it
visit_meta(a, meta, span) ==
    [a EXCEPT !.visits = Append(@, [source_id |-> source_id, meta |-> meta,
                                    span |-> span]),
              !.trace = Append(@, "visit_meta")]

\* the assembler state a lookup works on
AssemblerOf == [store |-> store, visits |-> visits, trace |-> <<>>]

\* mutant of QueryFirst: the query engine is asked whatever the generics
QueryFirst_always(generics) == TRUE

\* try_lookup_meta, the query engine is asked first without generics
QueryFirst(generics) == ~generics.some

\* mutant of FoundInQuery: the visitor is not told
FoundInQuery_silent(a, meta, span) ==
    [a |-> a, res |-> [k |-> "some", meta |-> meta]]

\* try_lookup_meta, a hit of the query engine is visited and returned
FoundInQuery(a, meta, span) ==
    [a |-> visit_meta(a, meta, span), res |-> [k |-> "some", meta |-> meta]]

\* try_lookup_meta, the selected context meta is inserted, visited, returned
FoundInContext(ins, span) ==
    IF ins.res.k = "err" THEN ins
    ELSE [a |-> visit_meta(ins.a, ins.res.meta, span), res |-> ins.res]

\* try_lookup_meta, the context path
ContextPath(a, span, item, generics, ifail) ==
    LET sel == select_context_meta(item, ContextLookupMeta(item), generics)
        a1 == Consulted(a, "context")
    IN
    IF sel.k # "some" THEN [a |-> a1, res |-> sel]
    ELSE FoundInContext(
            insert_context_meta(Consulted(a1, "insert_context_meta"),
                                item, sel.meta, ifail), span)

\* try_lookup_meta, the query path: asked first, the context on a miss
QueryPath(a, span, item, generics, qfail, ifail) ==
    LET q == query_meta(a, item, qfail) IN
    IF q.res.k = "err" THEN q
    ELSE IF q.res.k = "some" THEN FoundInQuery(q.a, q.res.meta, span)
    ELSE ContextPath(q.a, span, item, generics, ifail)

\* Assembler::try_lookup_meta
try_lookup_meta(a, span, item, generics, qfail, ifail) ==
    IF QueryFirst(generics)
    THEN QueryPath(a, span, item, generics, qfail, ifail)
    ELSE ContextPath(a, span, item, generics, ifail)

\* mutant of MissingKind: an empty hash counts as no generics
MissingKind_byhash(item, parameters) ==
    IF UnwrapOrEmpty(parameters) # HashEmpty
    THEN [kind |-> "MissingItemParameters", item |-> item, parameters |-> parameters.v]
    ELSE [kind |-> "MissingItem", item |-> item]

\* lookup_meta, the error of a missing item
MissingKind(item, parameters) ==
    IF parameters.some
    THEN [kind |-> "MissingItemParameters", item |-> item, parameters |-> parameters.v]
    ELSE [kind |-> "MissingItem", item |-> item]

\* Assembler::lookup_meta
lookup_meta(a, span, item, parameters, qfail, ifail) ==
    LET r == try_lookup_meta(a, span, item, parameters, qfail, ifail) IN
    IF r.res.k # "none" THEN r
    ELSE [a |-> r.a, res |-> [k |-> "err", e |-> MissingKind(item, parameters)]]

Generics == {NoneV} \cup {Some(h) : h \in Hashes}

\* the step of a lookup that fails, if it is reached
Faults == {"none", "query_meta", "insert_context_meta"}

\* the lookups made so far; the k-th lookup is made at span k
ncalls == lcall.span

InitLookup ==
    /\ InterpIdle
    /\ BudgetIdle
    /\ AsmIdle
    /\ CallIdle
    /\ TargetIdle
    /\ ParseIdle
    /\ context \in Contexts
    /\ source_id = 1
    /\ store = EmptyMap
    /\ visits = <<>>
    /\ resolved = <<>>
    /\ lcall = NoCall
    /\ ltrace = <<>>
    /\ lret = [k |-> "none"]

\* the assembler after the lookup r made as call
Looked(call, r) ==
    /\ store' = r.a.store
    /\ visits' = r.a.visits
    /\ ltrace' = r.a.trace
    /\ lret' = r.res
    /\ lcall' = call
    /\ resolved' = IF r.res.k = "some"
                   THEN Append(resolved, [meta |-> r.res.meta, span |-> call.span])
                   ELSE resolved
    /\ UNCHANGED <<context, source_id, interpVars, budgetVars, asmVars,
                   callVars, targetVars, parseVars>>

\* try_lookup_meta(span, item, generics) is called
TryLookupMeta ==
    /\ ncalls < MaxLookups
    /\ \E item \in LookupItems, generics \in Generics, fault \in Faults :
          Looked([op |-> "try_lookup_meta", item |-> item, generics |-> generics,
                  span |-> ncalls + 1],
                 try_lookup_meta(AssemblerOf, ncalls + 1, item, generics,
                                 fault = "query_meta", fault = "insert_context_meta"))

\* lookup_meta(span, item, parameters) is called
LookupMeta ==
    /\ ncalls < MaxLookups
    /\ \E item \in LookupItems, generics \in Generics, fault \in Faults :
          Looked([op |-> "lookup_meta", item |-> item, generics |-> generics,
                  span |-> ncalls + 1],
                 lookup_meta(AssemblerOf, ncalls + 1, item, generics,
                             fault = "query_meta", fault = "insert_context_meta"))

NextLookup == TryLookupMeta \/ LookupMeta

SpecLookup == InitLookup /\ [][NextLookup]_vars

(***************************************************************************)
(* Properties of the meta lookup.                                          *)
(***************************************************************************)
\* the hash the last lookup asked for
Wanted == IF lcall.generics.some THEN lcall.generics.v ELSE HashEmpty

\* the registrations left by the kind filter and the parameters filter
Remaining ==
    {i \in 1..Len(context) :
        /\ context[i].kind # "Macro"
        /\ context[i].kind # "Module"
        /\ context[i].parameters = Wanted}

InTrace(what) == \E i \in 1..Len(ltrace) : ltrace[i] = what

\* C6: when a lookup reaches the context, the registrations left by the two
\* filters decide it: exactly one is the meta returned (unless its insertion
\* fails), none is missing, two or more is AmbiguousContextItem; a Macro or a
\* Module is never returned from the context.
C6_Selection ==
    InTrace("context") =>
        /\ Cardinality(Remaining) = 1 =>
              \/ /\ lret.k = "some"
                 /\ lret.meta.from = "context"
                 /\ lret.meta.id \in Remaining
                 /\ lret.meta.kind = context[lret.meta.id].kind
                 /\ lret.meta.parameters = Wanted
                 /\ lret.meta.item = lcall.item
              \/ /\ lret.k = "err"
                 /\ lret.e.kind = "MetaError"
                 /\ InTrace("insert_context_meta")
        /\ Cardinality(Remaining) = 0 =>
              IF lcall.op = "try_lookup_meta" THEN lret.k = "none"
              ELSE lret.k = "err" /\ lret.e.kind \in {"MissingItem", "MissingItemParameters"}
        /\ Cardinality(Remaining) >= 2 =>
              lret.k = "err" /\ lret.e.kind = "AmbiguousContextItem"
        /\ lret.k = "some" => lret.meta.kind \notin {"Macro", "Module"}

\* a macro and a function are registered under the hash asked for, and the
\* function is returned
C6_Witness ==
    /\ InTrace("context")
    /\ lret.k = "some"
    /\ \E i \in 1..Len(context) :
          context[i].kind = "Macro" /\ context[i].parameters = Wanted
    /\ \E i \in 1..Len(context) :
          context[i].kind = "Module"

\* C7: the infos of an AmbiguousContextItem error are those of exactly the
\* registrations left by the two filters.
C7_AmbiguousInfos ==
    (lret.k = "err" /\ lret.e.kind = "AmbiguousContextItem") =>
        {lret.e.infos[i] : i \in 1..Len(lret.e.infos)}
            = {Info(context[i]) : i \in Remaining}

\* C8: without generics the query engine is asked first; its hit is visited
\* and returned and its error is returned, the context untouched; the
\* context is consulted only after a miss. With generics the query engine is
\* not asked and the context is consulted first.
C8_QueryFirst ==
    lcall.op # "none" =>
        IF ~lcall.generics.some
        THEN /\ Len(ltrace) >= 2
             /\ ltrace[1] = "query_meta"
             /\ ltrace[2] = "hit" =>
                   /\ ltrace = <<"query_meta", "hit", "visit_meta">>
                   /\ lret.k = "some"
                   /\ lret.meta = store[<<lcall.item, HashEmpty>>]
             /\ ltrace[2] = "error" => (Len(ltrace) = 2 /\ lret.k = "err")
             /\ ltrace[2] = "miss" => (Len(ltrace) >= 3 /\ ltrace[3] = "context")
             /\ \A i \in 1..Len(ltrace) :
                   ltrace[i] \in {"context", "insert_context_meta"} =>
                      (ltrace[2] = "miss" /\ i >= 3)
        ELSE /\ ~InTrace("query_meta")
             /\ ltrace # <<>>
             /\ ltrace[1] = "context"

\* a lookup of f without generics is answered by the query engine, out of
\* the store, with metas registered by the host for f
C8_Witness ==
    /\ lcall.item = "f"
    /\ ~lcall.generics.some
    /\ ltrace = <<"query_meta", "hit", "visit_meta">>
    /\ Remaining # {}

\* neither the query engine (asked without generics) nor the context has
\* anything for the item of the lookup made in this step
NothingYields ==
    /\ Remaining' = {}
    /\ \/ lcall'.generics.some
       \/ /\ <<lcall'.item, HashEmpty>> \notin DOMAIN store
          /\ lcall'.item \notin UserItems

\* C9: when neither the query engine nor the context yields a meta,
\* lookup_meta fails with MissingItemParameters if generics were supplied,
\* an empty hash included, and with MissingItem if not; nothing is inserted
\* into the store and the visitor is not called.
C9_Missing ==
    [][(lcall'.op = "lookup_meta" /\ lcall'.span # lcall.span /\ NothingYields) =>
          /\ lret'.k = "err"
          /\ lret'.e.item = lcall'.item
          /\ IF lcall'.generics.some
             THEN /\ lret'.e.kind = "MissingItemParameters"
                  /\ lret'.e.parameters = lcall'.generics.v
             ELSE lret'.e.kind = "MissingItem"
          /\ store' = store
          /\ visits' = visits
          /\ ~InTrace("visit_meta")']_vars

\* lookup_meta was given the empty hash and found nothing
C9_Witness ==
    /\ lcall.op = "lookup_meta"
    /\ lcall.generics = Some(HashEmpty)
    /\ lret.k = "err"
    /\ lret.e.kind = "MissingItemParameters"
    /\ lret.e.parameters = HashEmpty

\* how often the last lookup called visit_meta
VisitCalls == Cardinality({i \in 1..Len(ltrace) : ltrace[i] = "visit_meta"})

\* C10: a lookup that returns a meta calls visit_meta exactly once, with
\* that meta, the source id and the span of the call, as its last step; a
\* lookup that ends in missing or in an error does not call it. The
\* callbacks are the successful resolutions, in resolution order.
C10_Visited ==
    [][/\ IF lret'.k = "some" /\ lcall'.span # lcall.span
          THEN /\ visits' = Append(visits, [source_id |-> source_id,
                                            meta |-> lret'.meta,
                                            span |-> lcall'.span])
               /\ VisitCalls' = 1
               /\ ltrace'[Len(ltrace')] = "visit_meta"
          ELSE /\ visits' = visits
               /\ lcall'.span # lcall.span => VisitCalls' = 0
       /\ Len(visits') = Len(resolved')
       /\ \A i \in 1..Len(visits') :
             /\ visits'[i].meta = resolved'[i].meta
             /\ visits'[i].span = resolved'[i].span]_vars

\* two lookups resolved, the first out of the context and the second out of
\* the user source, and the visitor was told of both in that order
C10_Witness ==
    /\ Len(visits) = 2
    /\ visits[1].meta.from = "context" /\ visits[1].span = 1
    /\ visits[2].meta.from = "source" /\ visits[2].span = 2

(***************************************************************************)
(* Emission of the assembler: the cleanup of local slots.                  *)
(***************************************************************************)
\* Inst::Pop, Inst::PopN and Inst::Clean
Pop == [inst |-> "Pop"]
PopN(count) == [inst |-> "PopN", count |-> count]
Clean(count) == [inst |-> "Clean", count |-> count]

\* Assembly::push: one instruction with its span, after those emitted
AsmPush(a, inst, span) == Append(a, [inst |-> inst, span |-> span])

\* mutant of locals_pop: a single slot is popped with PopN
locals_pop_popn(a, total_var_count, span) ==
    IF total_var_count = 0 THEN a
    ELSE AsmPush(a, PopN(total_var_count), span)

\* Assembler::locals_pop
locals_pop(a, total_var_count, span) ==
    CASE total_var_count = 0 -> a
      [] total_var_count = 1 -> AsmPush(a, Pop, span)
      [] OTHER -> AsmPush(a, PopN(total_var_count), span)

\* mutant of locals_clean: a count of 0 is emitted like any other
locals_clean_always(a, total_var_count, span) ==
    AsmPush(a, Clean(total_var_count), span)

\* Assembler::locals_clean
locals_clean(a, total_var_count, span) ==
    CASE total_var_count = 0 -> a
      [] OTHER -> AsmPush(a, Clean(total_var_count), span)

NeedsKinds == {"Type", "Value", "None"}

\* mutant of NeedsValue: a type is not taken for a value
NeedsValue_novalue(needs) == needs = "Value"

\* Needs::value
NeedsValue(needs) == needs \in {"Type", "Value"}

\* Scopes::push: a child scope on top, and the guard of it
ScopesPush(stack, guard) ==
    Append(stack, [guard |-> guard, local_var_count |-> 0])

\* Scopes::decl_var, as far as the count of locals goes: k variables are
\* declared in the topmost scope
ScopesDecl(stack, k) ==
    [stack EXCEPT ![Len(stack)].local_var_count = @ + k]

\* Scopes::pop: the topmost scope, if the guard presented is the one of it
ScopesPop(stack, expected, span) ==
    IF stack[Len(stack)].guard = expected
    THEN [k |-> "ok", scope |-> stack[Len(stack)],
          stack |-> SubSeq(stack, 1, Len(stack) - 1)]
    ELSE [k |-> "err", e |-> [kind |-> "ScopeGuardMismatch", span |-> span],
          stack |-> stack]

\* mutant of CleanScope: the locals are popped whatever is needed
CleanScope_pop(a, scope, span, needs) ==
    locals_pop(a, scope.local_var_count, span)

\* clean_last_scope, the cleanup emitted for the scope popped
CleanScope(a, scope, span, needs) ==
    IF NeedsValue(needs)
    THEN locals_clean(a, scope.local_var_count, span)
    ELSE locals_pop(a, scope.local_var_count, span)

\* Assembler::clean_last_scope: [asm, stack, res]
clean_last_scope(a, stack, span, expected, needs) ==
    LET popped == ScopesPop(stack, expected, span) IN
    IF popped.k = "err"
    THEN [asm |-> a, stack |-> stack, res |-> [k |-> "err", e |-> popped.e]]
    ELSE [asm |-> CleanScope(a, popped.scope, span, needs),
          stack |-> popped.stack,
          res |-> [k |-> "ok", scope |-> popped.scope]]

\* the operations made so far; the k-th operation is made at span k
nops == aop.seq

InitAsm ==
    /\ InterpIdle
    /\ BudgetIdle
    /\ LookupIdle
    /\ AsmIdle
    /\ CallIdle
    /\ TargetIdle
    /\ ParseIdle

\* locals_pop(n, span) is called
LocalsPop ==
    /\ nops < MaxOps
    /\ \E n \in 0..MaxLocals :
          /\ asm' = locals_pop(asm, n, nops + 1)
          /\ aop' = [op |-> "locals_pop", seq |-> nops + 1, n |-> n]
    /\ UNCHANGED <<scopes, nguard, interpVars, budgetVars, lookupVars,
                   callVars, targetVars, parseVars>>

\* locals_clean(n, span) is called
LocalsClean ==
    /\ nops < MaxOps
    /\ \E n \in 0..MaxLocals :
          /\ asm' = locals_clean(asm, n, nops + 1)
          /\ aop' = [op |-> "locals_clean", seq |-> nops + 1, n |-> n]
    /\ UNCHANGED <<scopes, nguard, interpVars, budgetVars, lookupVars,
                   callVars, targetVars, parseVars>>

\* a scope is pushed and its guard handed out
ScopePush ==
    /\ nops < MaxOps
    /\ scopes' = ScopesPush(scopes, nguard + 1)
    /\ nguard' = nguard + 1
    /\ aop' = [op |-> "push", seq |-> nops + 1]
    /\ UNCHANGED <<asm, interpVars, budgetVars, lookupVars, callVars,
                   targetVars, parseVars>>

\* the variables of a pattern are declared in the topmost scope
ScopeDecl ==
    /\ nops < MaxOps
    /\ \E k \in 1..MaxLocals :
          /\ scopes[Len(scopes)].local_var_count + k <= MaxLocals
          /\ scopes' = ScopesDecl(scopes, k)
    /\ aop' = [op |-> "decl", seq |-> nops + 1]
    /\ UNCHANGED <<asm, nguard, interpVars, budgetVars, lookupVars, callVars,
                   targetVars, parseVars>>

\* clean_last_scope(span, guard, needs) is called with a guard handed out
CleanLastScope ==
    /\ nops < MaxOps
    /\ \E expected \in 1..nguard, needs \in NeedsKinds :
          LET r == clean_last_scope(asm, scopes, nops + 1, expected, needs) IN
          /\ asm' = r.asm
          /\ scopes' = r.stack
          /\ aop' = [op |-> "clean_last_scope", seq |-> nops + 1,
                     expected |-> expected, needs |-> needs, res |-> r.res]
    /\ UNCHANGED <<nguard, interpVars, budgetVars, lookupVars, callVars,
                   targetVars, parseVars>>

NextAsm == LocalsPop \/ LocalsClean \/ ScopePush \/ ScopeDecl \/ CleanLastScope

SpecAsm == InitAsm /\ [][NextAsm]_vars

(***************************************************************************)
(* Properties of the emission.                                             *)
(***************************************************************************)
\* what popping n slots appends at span s
PopsOf(n, s) ==
    IF n = 0 THEN <<>>
    ELSE IF n = 1 THEN << [inst |-> [inst |-> "Pop"], span |-> s] >>
    ELSE << [inst |-> [inst |-> "PopN", count |-> n], span |-> s] >>

\* what cleaning n slots under the top one appends at span s
CleansOf(n, s) ==
    IF n = 0 THEN <<>>
    ELSE << [inst |-> [inst |-> "Clean", count |-> n], span |-> s] >>

\* C11: locals_pop(n, span) appends nothing when n = 0, the single
\* instruction Pop when n = 1 and the single instruction PopN{count: n} when
\* n > 1, tagged with the span; the instructions emitted before are unchanged.
C11_LocalsPop ==
    [][(aop'.op = "locals_pop" /\ aop'.seq # aop.seq) =>
          asm' = asm \o PopsOf(aop'.n, aop'.seq)]_vars

\* a PopN was emitted, and after it a Pop by locals_pop(1, span)
C11_Witness ==
    /\ aop.op = "locals_pop" /\ aop.n = 1
    /\ Len(asm) = 2
    /\ asm[1].inst = [inst |-> "PopN", count |-> MaxLocals]
    /\ asm[2] = [inst |-> [inst |-> "Pop"], span |-> aop.seq]

\* C12, as claimed: locals_clean(n, span) emits Clean{n}, tagged with the
\* span, for every n it is called with.
C12_CleanEveryN ==
    [][(aop'.op = "locals_clean" /\ aop'.seq # aop.seq) =>
          asm' = Append(asm, [inst |-> [inst |-> "Clean", count |-> aop'.n],
                              span |-> aop'.seq])]_vars

\* C12, amended: locals_clean(n, span) emits the single instruction Clean{n},
\* tagged with the span, for every n > 0 and emits nothing for n = 0; the
\* instructions emitted before are unchanged.
C12_CleanUnlessZero ==
    [][(aop'.op = "locals_clean" /\ aop'.seq # aop.seq) =>
          asm' = asm \o CleansOf(aop'.n, aop'.seq)]_vars

\* a Clean was emitted, and locals_clean(0, span) after it emitted nothing
C12_Witness ==
    /\ aop.op = "locals_clean" /\ aop.n = 0 /\ aop.seq = 2
    /\ asm = << [inst |-> [inst |-> "Clean", count |-> 2], span |-> 1] >>

\* C13: clean_last_scope(span, guard, needs) pops the topmost scope if the
\* guard is the one of it, and then emits the cleanup of the local_var_count
\* of the scope popped, that of locals_clean when needs is Type or Value and
\* that of locals_pop when needs is None; with another guard it returns the
\* error, pops nothing and emits nothing.
C13_CleanLastScope ==
    [][(aop'.op = "clean_last_scope" /\ aop'.seq # aop.seq) =>
          LET top == scopes[Len(scopes)] IN
          IF aop'.expected = top.guard
          THEN /\ aop'.res.k = "ok"
               /\ scopes' = SubSeq(scopes, 1, Len(scopes) - 1)
               /\ asm' = asm \o (IF aop'.needs \in {"Type", "Value"}
                                 THEN CleansOf(top.local_var_count, aop'.seq)
                                 ELSE PopsOf(top.local_var_count, aop'.seq))
          ELSE /\ aop'.res.k = "err"
               /\ scopes' = scopes
               /\ asm' = asm]_vars

\* a scope of two locals was popped where a type is needed
C13_Witness ==
    /\ aop.op = "clean_last_scope" /\ aop.needs = "Type"
    /\ aop.res.k = "ok" /\ aop.res.scope.local_var_count = 2
    /\ scopes = <<RootScope>>
    /\ asm = << [inst |-> [inst |-> "Clean", count |-> 2], span |-> aop.seq] >>

\* the runtime stack after an instruction: Pop removes the top slot, PopN
\* the top count slots, Clean the count slots under the top one, which it
\* preserves; ok is whether the stack held the slots
ExecInst(inst, st) ==
    CASE inst.inst = "Pop" ->
            [ok |-> Len(st) >= 1, st |-> SubSeq(st, 1, Len(st) - 1)]
      [] inst.inst = "PopN" ->
            [ok |-> Len(st) >= inst.count,
             st |-> SubSeq(st, 1, Len(st) - inst.count)]
      [] inst.inst = "Clean" ->
            [ok |-> Len(st) >= inst.count + 1,
             st |-> SubSeq(st, 1, Len(st) - inst.count - 1)
                    \o SubSeq(st, Len(st), Len(st))]

\* the runtime stack after the instructions, one after the other
RECURSIVE Run(_, _)
Run(insts, st) ==
    IF insts = <<>> THEN [ok |-> TRUE, st |-> st]
    ELSE IF ~ExecInst(insts[1].inst, st).ok THEN [ok |-> FALSE, st |-> st]
    ELSE Run(Tail(insts), ExecInst(insts[1].inst, st).st)

\* n slots of a kind
Slots(kind, n) == [i \in 1..n |-> [kind |-> kind, i |-> i]]

\* the locals of all the scopes of the stack
RECURSIVE LocalsOf(_)
LocalsOf(stack) ==
    IF stack = <<>> THEN 0
    ELSE stack[Len(stack)].local_var_count
         + LocalsOf(SubSeq(stack, 1, Len(stack) - 1))

\* the runtime stack when a scope of n locals is cleaned up: the slots of
\* the enclosing scopes, the n locals, and the value produced if one is
\* needed
StackAt(enclosing, n, needs) ==
    Slots("enclosing", enclosing) \o Slots("local", n)
    \o (IF needs \in {"Type", "Value"} THEN Slots("value", 1) ELSE <<>>)

\* the emitted instructions take the n locals off the runtime stack and
\* leave the enclosing slots, under the value if one is needed
NetEffect(emitted, enclosing, n, needs) ==
    /\ Len(emitted) <= 1
    /\ Run(emitted, StackAt(enclosing, n, needs)).ok
    /\ Len(Run(emitted, StackAt(enclosing, n, needs)).st)
          = Len(StackAt(enclosing, n, needs)) - n
    /\ Run(emitted, StackAt(enclosing, n, needs)).st
          = StackAt(enclosing, 0, needs)

\* C24: the instructions a successful clean_last_scope emits, at most one,
\* remove exactly the n local slots of the popped scope from the runtime
\* stack, for every n and every Needs: where a value or a type is needed the
\* slot on top stays on top, right above the slots of the enclosing scopes;
\* where none is needed no slot of the popped scope remains.
C24_NetStackEffect ==
    [][(aop'.op = "clean_last_scope" /\ aop'.seq # aop.seq
          /\ aop'.res.k = "ok") =>
          NetEffect(SubSeq(asm', Len(asm) + 1, Len(asm')),
                    LocalsOf(scopes'),
                    scopes[Len(scopes)].local_var_count,
                    aop'.needs)]_vars

\* a scope of three locals inside a scope that has a local of its own was
\* cleaned up with a value on top, by one Clean
C24_Witness ==
    /\ aop.op = "clean_last_scope"
    /\ aop.res.k = "ok"
    /\ aop.needs = "Value"
    /\ aop.res.scope.local_var_count = MaxLocals
    /\ LocalsOf(scopes) >= 1
    /\ asm # <<>>
    /\ asm[Len(asm)].inst = Clean(MaxLocals)
    /\ Run(<<asm[Len(asm)]>>,
           StackAt(LocalsOf(scopes), MaxLocals, "Value")).st
          = StackAt(LocalsOf(scopes), 0, "Value")

(***************************************************************************)
(* Calls of const fns out of the assembler.                                *)
(***************************************************************************)
\* the HIR of an argument: a literal or a path of one name
HirLit(s, n) == [h |-> "lit", span |-> s, n |-> n]
HirPath(s, id) == [h |-> "path", span |-> s, id |-> id]

\* ir::compiler::expr: a literal lowers to a constant, a name to a read of it
CompileExpr(hir) ==
    IF hir.h = "lit" THEN Lit(hir.span, hir.n) ELSE Var(hir.span, hir.id)

\* the const fns of the user source, all declared in module m: IrFn and
\* the item of the ItemMeta
ConstFns ==
    {[item |-> <<"m", "f">>, args |-> <<>>, ir |-> Var(20, "C")],
     [item |-> <<"m", "f">>, args |-> <<"x", "y">>, ir |-> Var(20, "y")],
     [item |-> <<"m", "f">>, args |-> <<"C", "y">>,
      ir |-> Bin(20, Var(21, "C"), Var(22, "y"))]}

\* the items calls are made from: the root constant A and m::C
Callers == {[item |-> <<"A">>], [item |-> <<"m", "C">>]}

\* the arguments of a call; the i-th one lies at span 30 + i
ArgLists ==
    UNION {[1..n -> {"lit", "A", "C"}] : n \in 0..MaxArgs}
ArgHir(a, i) ==
    IF a[i] = "lit" THEN HirLit(30 + i, 5) ELSE HirPath(30 + i, a[i])

\* Scopes::decl: the name is bound in the topmost scope
ScopesDeclValue(stack, name, value) ==
    [stack EXCEPT ![Len(stack)] = (name :> value) @@ @]

\* IrInterpreter::eval_value: the inner evaluator, a short-circuit outcome
\* made an error
Valued(ev) ==
    [in |-> ev.in, q |-> ev.q,
     res |-> IF ev.out.k = "ok" THEN ev.out ELSE TranslateOutcome(ev.out)]
eval_value(in, q, ir) == Valued(Eval(in, q, ir))

\* mutant of ArgCountMismatch: only too few arguments are refused
ArgCountMismatch_fewer(params, args) == Len(params) > Len(args)

\* call_const_fn, the check of the number of arguments
ArgCountMismatch(params, args) == Len(params) # Len(args)

\* mutant of ArgsItem: the arguments are evaluated in the callee's item
ArgsItem_callee(from, fn) == fn.item

\* call_const_fn, the item of the interpreter while the arguments are
\* evaluated
ArgsItem(from, fn) == from.item

\* Iterator::zip: as many pairs as the shorter side has
ZipLen(a, b) == IF Len(a) < Len(b) THEN Len(a) ELSE Len(b)

\* history: the evaluation of the i-th argument by the interpreter in
EvalStep(in, i, res) ==
    [step |-> "eval", i |-> i, item |-> in.item,
     bound |-> DOMAIN in.scopes[Len(in.scopes)], res |-> res]

RECURSIVE EvalArgs(_, _, _, _)

\* call_const_fn, the i-th argument evaluated as ev: an error ends the call,
\* a value is declared under the name of the i-th parameter
ArgEvaluated(st, compiled, names, i, ev) ==
    IF ev.res.k # "ok"
    THEN [in |-> ev.in, q |-> ev.q, failed |-> TRUE, res |-> ev.res,
          trace |-> Append(st.trace, EvalStep(st.in, i, ev.res))]
    ELSE EvalArgs(
            [in |-> [ev.in EXCEPT !.scopes = ScopesDeclValue(@, names[i], ev.res.v)],
             q |-> ev.q, failed |-> FALSE, res |-> ev.res,
             trace |-> st.trace \o
                 << EvalStep(st.in, i, ev.res),
                    [step |-> "decl", i |-> i, name |-> names[i],
                     value |-> ev.res.v] >>],
            compiled, names, i + 1)

\* call_const_fn, the loop over the compiled arguments and their names
EvalArgs(st, compiled, names, i) ==
    IF i > ZipLen(compiled, names) THEN st
    ELSE ArgEvaluated(st, compiled, names, i,
                      eval_value(st.in, st.q, compiled[i]))

\* call_const_fn, the body evaluated as ev: its value is snapshotted
BodyDone(span, trace, in, ev) ==
    [q |-> ev.q,
     res |-> IF ev.res.k # "ok" THEN ev.res ELSE into_const(ev.res.v, span),
     trace |-> Append(trace, [step |-> "body", item |-> in.item,
                              scope |-> in.scopes[Len(in.scopes)],
                              b1 |-> ev.in.budget, res |-> ev.res])]

\* call_const_fn, after the arguments: the interpreter is moved to the item
\* of the callee and the body evaluated
CallBody(span, fn, st) ==
    IF st.failed THEN [q |-> st.q, res |-> st.res, trace |-> st.trace]
    ELSE BodyDone(span,
                  Append(st.trace, [step |-> "switch", item |-> fn.item]),
                  [st.in EXCEPT !.item = fn.item],
                  eval_value([st.in EXCEPT !.item = fn.item], st.q, fn.ir))

\* Assembler::call_const_fn: [q, res, trace]
call_const_fn(q, span, from, fn, args) ==
    IF ArgCountMismatch(fn.args, args)
    THEN [q |-> q, trace |-> <<>>,
          res |-> [k |-> "err",
                   e |-> [kind |-> "UnsupportedArgumentCount", span |-> span,
                          meta |-> fn.item, expected |-> Len(fn.args),
                          actual |-> Len(args)]]]
    ELSE CallBody(span, fn,
            EvalArgs(
               [in |-> [budget |-> IrBudgetNew(ConstFnBudget),
                        item |-> ArgsItem(from, fn), scopes |-> << <<>> >>],
                q |-> q, failed |-> FALSE, res |-> Ok(IrInteger(0)),
                trace |-> [i \in 1..ZipLen(args, fn.args) |->
                              [step |-> "compile", i |-> i]]
                          \o << [step |-> "interpreter",
                                 budget |-> IrBudgetNew(ConstFnBudget)] >>],
               [i \in 1..ZipLen(args, fn.args) |-> CompileExpr(args[i])],
               fn.args, 1))

\* history: the call made and what it did
Called(from, fn, args, r) ==
    [op |-> "call_const_fn", from |-> from, fn |-> fn, args |-> args,
     res |-> r.res, trace |-> r.trace,
     same |-> (r.q.consts = consts /\ r.q.marked = marked /\ r.q.metas = metas),
     nwalk |-> Len(r.q.walk), nlog |-> Len(r.q.log)]

\* call_const_fn(span, meta, from, query_const_fn, args) is called
CallConstFn ==
    \E from \in Callers, fn \in ConstFns, a \in ArgLists :
        LET args == [i \in 1..Len(a) |-> ArgHir(a, i)]
            r == call_const_fn(QueryOf, RootSpan, from, fn, args)
        IN
        /\ Commit(r.q)
        /\ ret' = r.res
        /\ cc' = Called(from, fn, args, r)
        /\ rcall' = NoResolve
        /\ UNCHANGED <<defs, interp>>
        /\ UNCHANGED <<budgetVars, lookupVars, asmVars, targetVars, parseVars>>

\* the user sources calls are made in: literals with m::C naming A, the
\* cycle of A and B, and m::C naming the function m::B
CallPrograms ==
    {Prog(Lit(RootSpan, 1), Lit(RootSpan, 2), Var(RootSpan, "A")),
     Prog(Var(RootSpan, "B"), Var(RootSpan, "A"), Var(RootSpan, "A")),
     Prog(Lit(RootSpan, 1), Lit(RootSpan, 2), Var(RootSpan, "B"))}

InitCall ==
    /\ defs \in CallPrograms
    /\ consts = EmptyMap
    /\ marked = {}
    /\ metas = EmptyMap
    /\ okv = EmptyMap
    /\ interp = [budget |-> IrBudgetNew(MaxBudget), item |-> <<"A">>,
                 scopes |-> << <<>> >>]
    /\ log = <<>>
    /\ ret = Ok(ConstInteger(0))
    /\ rcall = NoResolve
    /\ BudgetIdle
    /\ LookupIdle
    /\ AsmIdle
    /\ CallIdle
    /\ TargetIdle
    /\ ParseIdle

NextCall == CallConstFn \/ EvalExpr

SpecCall == InitCall /\ [][NextCall]_vars

(***************************************************************************)
(* Properties of call_const_fn.                                            *)
(***************************************************************************)
\* the positions of the trace of the last call at which a step was made
StepsAt(what) == {i \in 1..Len(cc.trace) : cc.trace[i].step = what}

\* C14: a call with a number of arguments other than the number of
\* parameters fails with UnsupportedArgumentCount, expected being the number
\* of parameters and actual the number of arguments, before any argument is
\* compiled or evaluated and before an interpreter is built: nothing is
\* evaluated, bound or cached and the query state is unchanged.
C14_ArgumentCount ==
    (cc.op = "call_const_fn" /\ Len(cc.args) # Len(cc.fn.args)) =>
        /\ cc.res.k = "err"
        /\ cc.res.e.kind = "UnsupportedArgumentCount"
        /\ cc.res.e.expected = Len(cc.fn.args)
        /\ cc.res.e.actual = Len(cc.args)
        /\ cc.trace = <<>>
        /\ cc.nlog = 0
        /\ cc.same

\* a call with one argument too many, each of which could be evaluated
C14_Witness ==
    /\ cc.op = "call_const_fn"
    /\ cc.fn.args = <<>>
    /\ Len(cc.args) = 1
    /\ cc.args[1].h = "path"
    /\ ret = cc.res

\* the proper prefixes of an item path
ProperPrefixes(item) == {SubSeq(item, 1, n) : n \in 0..(Len(item) - 1)}

Ref(r) == [t |-> "Ref", r |-> r]

\* ir::IrTargetKind, each target with its span
TName(s, name) == [k |-> "Name", span |-> s, name |-> name]
TField(s, target, field) ==
    [k |-> "Field", span |-> s, target |-> target, field |-> field]
TIndex(s, target, index) ==
    [k |-> "Index", span |-> s, target |-> target, index |-> index]

RECURSIVE Targets(_)
\* the targets nested at most d deep; the span of a target is its depth
Targets(d) ==
    IF d = 0 THEN {TName(0, "x")}
    ELSE Targets(d - 1)
         \cup {TField(t.span + 1, t, "f") : t \in Targets(d - 1)}
         \cup {TIndex(t.span + 1, t, 0) : t \in Targets(d - 1)}

\* the kind of an IrValue, as the errors report it
TypeOf(h, v) == IF v.t = "Ref" THEN h[v.r].kind ELSE v.t

\* IrError::expected::<_, E>(spanned, actual)
Expected(span, expected, actual) ==
    [k |-> "err", e |-> [kind |-> "Expected", span |-> span,
                         expected |-> expected, actual |-> actual]]

\* Shared::borrow_ref and Shared::borrow_mut: whether the borrow is granted
BorrowRef(cell) == cell.borrow # "exclusive"
BorrowMut(cell) == cell.borrow = "none"

\* Scopes::get_name: the nearest binding of the name
get_name(stack, name, span) ==
    IF ScopesGet(stack, name).some THEN Ok(ScopesGet(stack, name).v)
    ELSE Err("MissingLocal", span)

\* get_target, a field of the value read for the inner target; the inner
\* target is the one the errors are reported at
GetField(h, t, value) ==
    IF value.k # "ok" THEN value
    ELSE IF TypeOf(h, value.v) # "Object"
    THEN Expected(t.target.span, "Tuple", TypeOf(h, value.v))
    ELSE IF ~BorrowRef(h[value.v.r]) THEN Err("Access", t.target.span)
    ELSE IF t.field \in DOMAIN h[value.v.r].slots
    THEN Ok(h[value.v.r].slots[t.field])
    ELSE Err("MissingField", t.target.span)

\* get_target, an index of the value read for the inner target
GetIndex(h, t, value) ==
    IF value.k # "ok" THEN value
    ELSE IF TypeOf(h, value.v) \notin {"Vec", "Tuple"}
    THEN Expected(t.span, "Tuple", TypeOf(h, value.v))
    ELSE IF ~BorrowRef(h[value.v.r]) THEN Err("Access", t.span)
    ELSE IF t.index \in DOMAIN h[value.v.r].slots
    THEN Ok(h[value.v.r].slots[t.index])
    ELSE Err("MissingIndex", t.span)

RECURSIVE get_target(_, _, _)
\* IrScopes::get_target
get_target(stack, h, t) ==
    CASE t.k = "Name" -> get_name(stack, t.name, t.span)
      [] t.k = "Field" -> GetField(h, t, get_target(stack, h, t.target))
      [] t.k = "Index" -> GetIndex(h, t, get_target(stack, h, t.target))

\* Scopes::last_mut: the scope set_target and mut_target work on
LastMut(stack) == Len(stack)

\* mutant of Stored: the write goes to a copy of the cell and is lost
Stored_copy(h, r, key, v) == h

\* the heap with the slot key of the cell r holding v
Stored(h, r, key, v) ==
    [h EXCEPT ![r].slots = (key :> v) @@ @]

\* set_target, a field of the value read for the inner target
SetField(stack, h, t, v, current) ==
    IF current.k # "ok" THEN [stack |-> stack, heap |-> h, res |-> current]
    ELSE IF TypeOf(h, current.v) # "Object"
    THEN [stack |-> stack, heap |-> h,
          res |-> Expected(t.span, "Object", TypeOf(h, current.v))]
    ELSE IF ~BorrowMut(h[current.v.r])
    THEN [stack |-> stack, heap |-> h, res |-> Err("Access", t.span)]
    ELSE [stack |-> stack, heap |-> Stored(h, current.v.r, t.field, v),
          res |-> Ok(TRUE)]

\* set_target, an index of the value read for the inner target
SetIndex(stack, h, t, v, current) ==
    IF current.k # "ok" THEN [stack |-> stack, heap |-> h, res |-> current]
    ELSE IF TypeOf(h, current.v) \notin {"Vec", "Tuple"}
    THEN [stack |-> stack, heap |-> h,
          res |-> Expected(t.span, "Tuple", TypeOf(h, current.v))]
    ELSE IF ~BorrowMut(h[current.v.r])
    THEN [stack |-> stack, heap |-> h, res |-> Err("Access", t.span)]
    ELSE IF t.index \in DOMAIN h[current.v.r].slots
    THEN [stack |-> stack, heap |-> Stored(h, current.v.r, t.index, v),
          res |-> Ok(TRUE)]
    ELSE [stack |-> stack, heap |-> h, res |-> Err("missing index", t.span)]

\* IrScopes::set_target: [stack, heap, res]
set_target(stack, h, t, v) ==
    CASE t.k = "Name" ->
            IF stack = <<>>
            THEN [stack |-> stack, heap |-> h, res |-> Err("no scopes", t.span)]
            ELSE [stack |-> [stack EXCEPT ![LastMut(stack)] = (t.name :> v) @@ @],
                  heap |-> h, res |-> Ok(TRUE)]
      [] t.k = "Field" -> SetField(stack, h, t, v, get_target(stack, h, t.target))
      [] t.k = "Index" -> SetIndex(stack, h, t, v, get_target(stack, h, t.target))

\* the closures mut_target is given: one stores 2, one fails
Ops == {"store", "fail"}
ApplyOp(op, v) ==
    IF op = "fail" THEN [res |-> Err("op", 0), v |-> v]
    ELSE [res |-> Ok(TRUE), v |-> IrInteger(2)]

\* mut_target, a slot of the value read for the inner target: an object
\* when kinds is {"Object"}, a vector or a tuple otherwise
MutSlot(stack, h, t, op, current, kinds, key, expected, missing) ==
    IF current.k # "ok"
    THEN [stack |-> stack, heap |-> h, res |-> current, reached |-> FALSE]
    ELSE IF TypeOf(h, current.v) \notin kinds
    THEN [stack |-> stack, heap |-> h, reached |-> FALSE,
          res |-> Expected(t.span, expected, TypeOf(h, current.v))]
    ELSE IF ~BorrowMut(h[current.v.r])
    THEN [stack |-> stack, heap |-> h, reached |-> FALSE,
          res |-> Err("Access", t.span)]
    ELSE IF key \notin DOMAIN h[current.v.r].slots
    THEN [stack |-> stack, heap |-> h, reached |-> FALSE,
          res |-> Err(missing, t.span)]
    ELSE [stack |-> stack, reached |-> TRUE,
          heap |-> Stored(h, current.v.r, key,
                          ApplyOp(op, h[current.v.r].slots[key]).v),
          res |-> ApplyOp(op, h[current.v.r].slots[key]).res]

\* IrScopes::mut_target: [stack, heap, res, reached], reached when op ran
mut_target(stack, h, t, op) ==
    CASE t.k = "Name" ->
            IF stack = <<>>
            THEN [stack |-> stack, heap |-> h, reached |-> FALSE,
                  res |-> Err("no scopes", t.span)]
            ELSE IF t.name \notin DOMAIN stack[LastMut(stack)]
            THEN [stack |-> stack, heap |-> h, reached |-> FALSE,
                  res |-> Err("not such variable", t.span)]
            ELSE [stack |-> [stack EXCEPT ![LastMut(stack)][t.name] =
                                ApplyOp(op, @).v],
                  heap |-> h, reached |-> TRUE,
                  res |-> ApplyOp(op, stack[LastMut(stack)][t.name]).res]
      [] t.k = "Field" ->
            MutSlot(stack, h, t, op, get_target(stack, h, t.target),
                    {"Object"}, t.field, "Object", "MissingField")
      [] t.k = "Index" ->
            MutSlot(stack, h, t, op, get_target(stack, h, t.target),
                    {"Vec", "Tuple"}, t.index, "Tuple", "MissingIndex")

\* history: the cell r was borrowed (open), its guard dropped (close), or
\* the borrow refused
BorrowEvent(r, kind, act) == [r |-> r, kind |-> kind, act |-> act]

\* mutant of Guarded: the guard is never dropped
Guarded_leaked(granted, r, kind, inside) ==
    IF granted THEN <<BorrowEvent(r, kind, "open")>> \o inside
    ELSE <<BorrowEvent(r, kind, "refused")>>

\* a borrow of the cell r whose guard is a local of the match arm: it is
\* dropped when the arm is left, by return or by `?`, after what is done
\* inside
Guarded(granted, r, kind, inside) ==
    IF granted
    THEN <<BorrowEvent(r, kind, "open")>> \o inside
         \o <<BorrowEvent(r, kind, "close")>>
    ELSE <<BorrowEvent(r, kind, "refused")>>

\* the borrows of one arm of a target operation, on the value read for the
\* inner target: none unless the value is of one of the kinds
ArmBorrows(h, value, kinds, kind, inside) ==
    IF value.k # "ok" THEN <<>>
    ELSE IF TypeOf(h, value.v) \notin kinds THEN <<>>
    ELSE Guarded(IF kind = "shared" THEN BorrowRef(h[value.v.r])
                 ELSE BorrowMut(h[value.v.r]),
                 value.v.r, kind, inside)

\* the kinds of value the arm of a target borrows
ArmKinds(t) == IF t.k = "Field" THEN {"Object"} ELSE {"Vec", "Tuple"}

RECURSIVE get_borrows(_, _, _)
\* the borrows get_target makes, in order: those of the inner target are
\* over, its value cloned, before the arm borrows
get_borrows(stack, h, t) ==
    IF t.k = "Name" THEN <<>>
    ELSE get_borrows(stack, h, t.target)
         \o ArmBorrows(h, get_target(stack, h, t.target), ArmKinds(t),
                       "shared", <<>>)

\* the borrows set_target and mut_target make: those of reading the inner
\* target, then the exclusive borrow of the arm; the ops borrow nothing
write_borrows(stack, h, t) ==
    IF t.k = "Name" THEN <<>>
    ELSE get_borrows(stack, h, t.target)
         \o ArmBorrows(h, get_target(stack, h, t.target), ArmKinds(t),
                       "exclusive", <<>>)

\* history: the borrows held on the cells when an operation is called
Borrowed(h) == [r \in DOMAIN h |-> h[r].borrow]

\* a cell of the heap: an object, a vector or a tuple behind a Shared
Cell(kind, slots, borrow) == [kind |-> kind, slots |-> slots, borrow |-> borrow]

\* the scopes and shared values evaluation has built when a target is
\* used: a vector holding an object; an object bound in the outer scope
\* only, under an empty inner scope; an object a reader has borrowed, next
\* to an empty tuple
TargetStates ==
    {[stack |-> << ("x" :> Ref(2)) >>,
      heap |-> (1 :> Cell("Object", ("f" :> IrInteger(1)), "none"))
               @@ (2 :> Cell("Vec", (0 :> Ref(1)), "none"))],
     [stack |-> << ("x" :> Ref(1)), <<>> >>,
      heap |-> (1 :> Cell("Object", ("f" :> Ref(2)), "none"))
               @@ (2 :> Cell("Tuple", (0 :> IrInteger(1)), "none"))],
     [stack |-> << ("x" :> Ref(1)) >>,
      heap |-> (1 :> Cell("Object", ("f" :> Ref(2)), "shared"))
               @@ (2 :> Cell("Tuple", <<>>, "none"))]}

\* the values written
TValues == {IrInteger(2), Ref(2)}

InitTarget ==
    /\ InterpIdle
    /\ BudgetIdle
    /\ LookupIdle
    /\ AsmIdle
    /\ CallIdle
    /\ \E st \in TargetStates : tscopes = st.stack /\ heap = st.heap
    /\ tlast = [op |-> "none"]
    /\ ParseIdle

\* history: what the inner target of t reads, and the kind of that value
BaseOf(stack, h, t) ==
    IF t.k = "Name" THEN Ok(TRUE) ELSE get_target(stack, h, t.target)

BaseKind(stack, h, t) ==
    IF t.k = "Name" \/ BaseOf(stack, h, t).k # "ok" THEN "none"
    ELSE TypeOf(h, BaseOf(stack, h, t).v)

\* set_target(t, v) is called; base is what the inner target of t read
\* before it
SetTarget ==
    \E t \in Targets(MaxDepth), v \in TValues :
        LET r == set_target(tscopes, heap, t, v) IN
        /\ tscopes' = r.stack
        /\ heap' = r.heap
        /\ tlast' = [op |-> "set", t |-> t, v |-> v, res |-> r.res,
                     base |-> BaseOf(tscopes, heap, t),
                     kind |-> BaseKind(tscopes, heap, t),
                     kept |-> (r.stack = tscopes /\ r.heap = heap),
                     bt |-> write_borrows(tscopes, heap, t),
                     ext |-> Borrowed(heap)]
        /\ UNCHANGED <<interpVars, budgetVars, lookupVars, asmVars, callVars,
                       parseVars>>

\* get_target(t) is called
GetTarget ==
    \E t \in Targets(MaxDepth) :
        /\ tlast' = [op |-> "get", t |-> t, res |-> get_target(tscopes, heap, t),
                     kind |-> BaseKind(tscopes, heap, t), kept |-> TRUE,
                     bt |-> get_borrows(tscopes, heap, t),
                     ext |-> Borrowed(heap)]
        /\ UNCHANGED <<tscopes, heap>>
        /\ UNCHANGED <<interpVars, budgetVars, lookupVars, asmVars, callVars,
                       parseVars>>

\* mut_target(t, op) is called; got is what get_target(t) read before it
MutTarget ==
    \E t \in Targets(MaxDepth), op \in Ops :
        LET r == mut_target(tscopes, heap, t, op) IN
        /\ tscopes' = r.stack
        /\ heap' = r.heap
        /\ tlast' = [op |-> "mut", t |-> t, fn |-> op, res |-> r.res,
                     reached |-> r.reached,
                     got |-> get_target(tscopes, heap, t),
                     kind |-> BaseKind(tscopes, heap, t),
                     kept |-> (r.stack = tscopes /\ r.heap = heap),
                     bt |-> write_borrows(tscopes, heap, t),
                     ext |-> Borrowed(heap)]
        /\ UNCHANGED <<interpVars, budgetVars, lookupVars, asmVars, callVars,
                       parseVars>>

NextTarget == SetTarget \/ GetTarget \/ MutTarget

SpecTarget == InitTarget /\ [][NextTarget]_vars

(***************************************************************************)
(* Properties of the targets.                                              *)
(***************************************************************************)
\* C16, as claimed: if set_target(t, v) returns Ok, a get_target(t) that
\* follows it immediately returns Ok with v, for every target nested up to
\* MaxDepth and every value.
C16_RoundTripAny ==
    (tlast.op = "set" /\ tlast.res.k = "ok") =>
        get_target(tscopes, heap, tlast.t) = Ok(tlast.v)

\* the inner target of the target last written reads what it read before
\* the write
BaseKept ==
    \/ tlast.t.k = "Name"
    \/ get_target(tscopes, heap, tlast.t.target) = tlast.base

\* C16, amended: if set_target(t, v) returns Ok and, for a Field or an
\* Index, the inner target of t reads after the write the container it read
\* before it, a get_target(t) that follows immediately returns Ok with v.
C16_RoundTripKept ==
    (tlast.op = "set" /\ tlast.res.k = "ok" /\ BaseKept) =>
        get_target(tscopes, heap, tlast.t) = Ok(tlast.v)

\* a write through an index of a field of a name, two levels deep, of a
\* reference to a tuple
C16_Witness ==
    /\ tlast.op = "set" /\ tlast.res.k = "ok"
    /\ tlast.t.k = "Index"
    /\ tlast.t.target.k = "Field"
    /\ tlast.t.target.target.k = "Name"
    /\ tlast.v = Ref(2)
    /\ BaseKept

\* C20: mut_target(Name(n), op) applies op whenever get_target(Name(n))
\* succeeds, to the binding get_target reads, and fails only when n is bound
\* in no scope.
C20_MutName ==
    (tlast.op = "mut" /\ tlast.t.k = "Name") =>
        /\ tlast.got.k = "ok" => tlast.reached
        /\ tlast.res.k = "err" =>
              (tlast.reached \/ \A i \in 1..Len(tscopes) :
                                   tlast.t.name \notin DOMAIN tscopes[i])

\* C21: for a Field target whose base is a value other than an Object,
\* get_target, set_target and mut_target fail with an ExpectedKind error
\* that expects Object and names the kind of the base as actual; for an
\* Index target whose base is neither a Vec nor a Tuple they fail with an
\* ExpectedKind error that expects a sequence kind; nothing is modified.
C21_ExpectedKind ==
    /\ (tlast.op # "none" /\ tlast.t.k = "Field"
           /\ tlast.kind \notin {"none", "Object"}) =>
          /\ tlast.res.k = "err"
          /\ tlast.res.e.kind = "Expected"
          /\ tlast.res.e.expected = "Object"
          /\ tlast.res.e.actual = tlast.kind
          /\ tlast.kept
    /\ (tlast.op # "none" /\ tlast.t.k = "Index"
           /\ tlast.kind \notin {"none", "Vec", "Tuple"}) =>
          /\ tlast.res.k = "err"
          /\ tlast.res.e.kind = "Expected"
          /\ tlast.res.e.expected \in {"Vec", "Tuple"}
          /\ tlast.res.e.actual = tlast.kind
          /\ tlast.kept

\* the borrows of a kind the operation itself holds on the cell r after its
\* first i borrow events
Own(i, r, kind) ==
    Cardinality({j \in 1..i : tlast.bt[j] = BorrowEvent(r, kind, "open")})
    - Cardinality({j \in 1..i : tlast.bt[j] = BorrowEvent(r, kind, "close")})

\* all the borrows of a kind on the cell r then, those held when the
\* operation was called included
Borrows(i, r, kind) ==
    Own(i, r, kind) + (IF tlast.ext[r] = kind THEN 1 ELSE 0)

\* C22: a target operation has released every borrow it opened when it
\* returns, with Ok or with an error, and leaves the borrows on the cells as it
\* found them; at no point in it is a cell borrowed exclusively together
\* with another borrow; a borrow is refused, and the operation fails with an
\* access error, only for a borrow that was held when it was called, never
\* for one a target operation left behind.
C22_BorrowsScoped ==
    tlast.op # "none" =>
        /\ \A r \in DOMAIN heap :
              /\ Own(Len(tlast.bt), r, "shared") = 0
              /\ Own(Len(tlast.bt), r, "exclusive") = 0
              /\ heap[r].borrow = tlast.ext[r]
        /\ \A i \in 1..Len(tlast.bt) : \A r \in DOMAIN heap :
              /\ Borrows(i, r, "exclusive") <= 1
              /\ Borrows(i, r, "exclusive") = 1 => Borrows(i, r, "shared") = 0
        /\ \A i \in 1..Len(tlast.bt) :
              tlast.bt[i].act = "refused" =>
                 /\ tlast.ext[tlast.bt[i].r] # "none"
                 /\ Own(i, tlast.bt[i].r, "shared") = 0
                 /\ Own(i, tlast.bt[i].r, "exclusive") = 0
        /\ (tlast.res.k = "err" /\ tlast.res.e.kind = "Access") <=>
              \E i \in 1..Len(tlast.bt) : tlast.bt[i].act = "refused"

\* mut_target through a vector that holds itself: the same cell is borrowed
\* shared to read the inner target and then exclusively to apply op
C22_Witness ==
    /\ tlast.op = "mut"
    /\ tlast.res.k = "ok"
    /\ Len(tlast.bt) = 4
    /\ tlast.bt[1].r = tlast.bt[3].r
    /\ tlast.bt[1].kind = "shared"
    /\ tlast.bt[3].kind = "exclusive"
    /\ tlast.bt[4].act = "close"

(***************************************************************************)
(* ast::Item: the peek for an item and the parse of one.                   *)
(***************************************************************************)
\* ast::Kind: the keywords that start an item, an identifier, `!` and `let`
Kinds == {"Use", "Enum", "Struct", "Impl", "Async", "Fn", "Mod", "Const",
          "Ident", "Bang", "Let"}

\* the tokens ahead of the parser, each with its position as span
TokenStreams ==
    UNION {[1..n -> Kinds] : n \in 0..MaxTokens}

Token(ts, i) == [kind |-> ts[i], span |-> i]

\* Parser::token_peek_pair: the next token and the one after it, if any
TokenPeekPair(ts) ==
    IF ts = <<>> THEN NoneV
    ELSE Some([t1 |-> Token(ts, 1),
               t2 |-> IF Len(ts) > 1 THEN Some(Token(ts, 2)) ELSE NoneV])

\* peek_as_stmt, `async`: an item when the token after it is `fn`
PeekAsync(t2) == IF ~t2.some THEN FALSE ELSE t2.v.kind = "Fn"

\* Item::peek_as_stmt
peek_as_stmt(ts) ==
    IF ~TokenPeekPair(ts).some THEN Ok(FALSE)
    ELSE Ok(CASE TokenPeekPair(ts).v.t1.kind = "Use" -> TRUE
              [] TokenPeekPair(ts).v.t1.kind = "Enum" -> TRUE
              [] TokenPeekPair(ts).v.t1.kind = "Struct" -> TRUE
              [] TokenPeekPair(ts).v.t1.kind = "Impl" -> TRUE
              [] TokenPeekPair(ts).v.t1.kind = "Async" ->
                    PeekAsync(TokenPeekPair(ts).v.t2)
              [] TokenPeekPair(ts).v.t1.kind = "Fn" -> TRUE
              [] TokenPeekPair(ts).v.t1.kind = "Mod" -> TRUE
              [] TokenPeekPair(ts).v.t1.kind = "Const" -> TRUE
              [] OTHER -> FALSE)

\* parse_with_meta, the match on the leading token: the variant parsed, and
\* whether its parser is given the attributes and the visibility
ItemStart(kind) ==
    CASE kind = "Use" -> [item |-> "ItemUse", attributes |-> TRUE, visibility |-> TRUE]
      [] kind = "Enum" -> [item |-> "ItemEnum", attributes |-> TRUE, visibility |-> TRUE]
      [] kind = "Struct" -> [item |-> "ItemStruct", attributes |-> TRUE, visibility |-> TRUE]
      [] kind = "Impl" -> [item |-> "ItemImpl", attributes |-> TRUE, visibility |-> FALSE]
      [] kind \in {"Async", "Fn"} -> [item |-> "ItemFn", attributes |-> TRUE, visibility |-> TRUE]
      [] kind = "Mod" -> [item |-> "ItemMod", attributes |-> TRUE, visibility |-> TRUE]
      [] kind = "Const" -> [item |-> "ItemConst", attributes |-> TRUE, visibility |-> TRUE]
      [] kind = "Ident" -> [item |-> "MacroCall", attributes |-> FALSE, visibility |-> FALSE]
      [] OTHER -> [item |-> "none", attributes |-> FALSE, visibility |-> FALSE]

\* parse_with_meta, after the item was parsed: what is left of the attributes
\* and of the visibility is not supported
ItemParsed(variant, attributes, visibility) ==
    IF attributes /\ ~variant.attributes
    THEN Err("UnsupportedItemAttributes", 0)
    ELSE IF visibility /\ ~variant.visibility
    THEN Err("UnsupportedItemVisibility", 0)
    ELSE Ok(variant.item)

\* Item::parse_with_meta on the tokens ts, with attributes and a visibility
\* or without; parsed is whether the parser of the variant succeeds
parse_with_meta(ts, attributes, visibility, parsed) ==
    IF ts = <<>> THEN [start |-> "none", res |-> Err("UnexpectedEof", 0)]
    ELSE IF ItemStart(ts[1]).item = "none"
    THEN [start |-> "none",
          res |-> [k |-> "err", e |-> [kind |-> "ExpectedItem", span |-> 1,
                                       actual |-> ts[1]]]]
    ELSE IF ~parsed
    THEN [start |-> ItemStart(ts[1]).item, res |-> Err("ParseError", 1)]
    ELSE [start |-> ItemStart(ts[1]).item,
          res |-> ItemParsed(ItemStart(ts[1]), attributes, visibility)]

InitParse ==
    /\ InterpIdle
    /\ BudgetIdle
    /\ LookupIdle
    /\ AsmIdle
    /\ CallIdle
    /\ TargetIdle
    /\ tokens \in TokenStreams
    /\ plast = [op |-> "none"]

\* Item::peek_as_stmt is called: the tokens stay ahead
PeekAsStmt ==
    /\ plast' = [op |-> "peek", tokens |-> tokens, res |-> peek_as_stmt(tokens)]
    /\ UNCHANGED tokens
    /\ UNCHANGED <<interpVars, budgetVars, lookupVars, asmVars, callVars,
                   targetVars>>

\* Item::parse_with_meta is called: the parser of a variant consumes the
\* leading token and any number of those after it
ParseWithMeta ==
    \E attributes \in BOOLEAN, visibility \in BOOLEAN, parsed \in BOOLEAN :
        LET r == parse_with_meta(tokens, attributes, visibility, parsed) IN
        /\ plast' = [op |-> "parse", tokens |-> tokens, start |-> r.start,
                     res |-> r.res]
        /\ IF r.start = "none" THEN UNCHANGED tokens
           ELSE \E n \in 1..Len(tokens) :
                   tokens' = SubSeq(tokens, n + 1, Len(tokens))
        /\ UNCHANGED <<interpVars, budgetVars, lookupVars, asmVars, callVars,
                       targetVars>>

NextParse == PeekAsStmt \/ ParseWithMeta

SpecParse == InitParse /\ [][NextParse]_vars

(***************************************************************************)
(* Properties of the peek.                                                 *)
(***************************************************************************)
\* the keywords that start an item by themselves
ItemKeywords == {"Use", "Enum", "Struct", "Impl", "Fn", "Mod", "Const"}

\* the second of the tokens is of the kind
Followed(ts, kind) == Len(ts) > 1 /\ ts[2] = kind

\* C23: peek_as_stmt answers true when the leading token is use, enum,
\* struct, impl, fn, mod, const, async followed by fn, or an identifier
\* starting a macro call; false on no token, on async not followed by fn and
\* on every other leading token; and every kind of leading token that
\* parse_with_meta takes as the start of an item is one the peek recognizes.
C23_Peek ==
    /\ plast.op = "peek" =>
          /\ plast.res.k = "ok"
          /\ (plast.tokens # <<>> /\ plast.tokens[1] \in ItemKeywords) =>
                plast.res.v
          /\ (plast.tokens # <<>> /\ plast.tokens[1] = "Async") =>
                (plast.res.v <=> Followed(plast.tokens, "Fn"))
          /\ (plast.tokens # <<>> /\ plast.tokens[1] = "Ident"
                /\ Followed(plast.tokens, "Bang")) => plast.res.v
          /\ (plast.tokens = <<>>
                \/ plast.tokens[1] \notin ItemKeywords \cup {"Async", "Ident"}) =>
                ~plast.res.v
    /\ (plast.op = "parse" /\ plast.start # "none") =>
          \E ts \in TokenStreams :
             /\ ts # <<>>
             /\ ts[1] = plast.tokens[1]
             /\ peek_as_stmt(ts) = Ok(TRUE)

====
